---- MODULE Spec2Model ----
(***************************************************************************)
(* A model of cibyl's source resolver (cibyl/sources/source.py), of its    *)
(* hierarchical model merge engine (cibyl/models/ci/{build,job,system}.py) *)
(* and of its configuration validator (cibyl/cli/validator.py).            *)
(*                                                                         *)
(* SpecResolver  : get_source_method over bounded lists of sources.        *)
(* Spec          : System.add_job / Job / Build / Test merging on a heap   *)
(*                 of Python objects.                                      *)
(* SpecAssoc     : three jobs of one name merged in the two groupings.     *)
(* SpecSystems   : populate, add_job and add_pipeline on a System and on a *)
(*                 ZuulSystem.                                             *)
(* SpecValidator : Validator.validate_environments over bounded            *)
(*                 configurations and user arguments.                      *)
(* SpecHandedIn  : a job of the tree and two builds a caller keeps.        *)
(* SpecPlugin    : Job.merge on jobs with the plugin's deployment.         *)
(* SpecJenkins   : safe_request_generic and the Jenkins source's           *)
(*                 send_request, get_builds, add_job_info_from_artifacts.  *)
(***************************************************************************)
EXTENDS Integers, Sequences, FiniteSets, TLC

VARIABLES
    sources,      \* resolver: the system's attached sources (a list)
    func_name,    \* resolver: the requested operation
    args,         \* resolver: the keys of the user's argument dict
    outcome,      \* resolver: what the last get_source_method call did
    heap,         \* merge engine: the Job, Build and Test objects, by reference
    jobs,         \* merge engine: System.jobs, job name -> reference
    held,         \* merge engine: the standalone Build the caller holds, if any
    call,         \* merge engine: the call in progress (its method and arguments)
    pre,          \* the state the call in progress began with (heap and dicts,
                  \* or the validator's environments)
    system,       \* system: the class of the system and its top_level_model
    pipelines,    \* system: ZuulSystem.pipelines, pipeline name -> reference
    error,        \* system: the exception the last call on the system raised
    environments, \* validator: the environments of the configuration (a list)
    ci_args,      \* validator: the user's arguments, name -> value
    validation,   \* validator: how far validate_environments is, and its outcome
    deployment,   \* plugin: the deployment attribute of the jobs, by reference
    jenkins       \* Jenkins source: the last call, what the server answered
                  \* and what the call did

resolverVars == <<sources, func_name, args, outcome>>
modelVars == <<heap, jobs, held, call, pre>>
systemVars == <<system, pipelines, error>>
validatorVars == <<environments, ci_args, validation>>
pluginVars == <<deployment>>
jenkinsVars == <<jenkins>>

vars == <<sources, func_name, args, outcome, heap, jobs, held, call, pre,
          system, pipelines, error, environments, ci_args, validation,
          deployment, jenkins>>

(***************************************************************************)
(* Bounds and value domains                                                *)
(***************************************************************************)
MaxSources == 2
MaxTimes == 2

\* Python's None for string-valued places.
None == "None"

EmptyDict == [k \in {} |-> 0]

Operations == {"get_builds", "get_jobs"}
ArgNames == {"last_build"}
Priorities == {0, 1}
BaseScores == {0, 1, 2}
ExtraScores == {-1, 1}

\* The speed_index dicts a source method may carry: 'base' present or absent,
\* a per-argument extra present or absent.
SpeedIndexes ==
    {EmptyDict}
    \cup {("base" :> b) : b \in BaseScores}
    \cup {("last_build" :> x) : x \in ExtraScores}
    \cup {("base" :> b) @@ ("last_build" :> x) : b \in BaseScores, x \in ExtraScores}

\* The methods a source object exposes: operation name -> speed_index.
MethodTables ==
    {EmptyDict}
    \cup {("get_jobs" :> ("base" :> 2))}
    \cup {("get_builds" :> si) : si \in SpeedIndexes}

(***************************************************************************)
(* cibyl/sources/source.py                                                 *)
(***************************************************************************)
\* Source.__init__: enabled defaults to True and priority to 0; here the
\* configuration gives enabled, and priority keeps its default.
Source(enabled, methods) ==
    [enabled |-> enabled, priority |-> 0, methods |-> methods]

\* dict.get(key, default)
DictGet(d, key, default) == IF key \in DOMAIN d THEN d[key] ELSE default

\* hasattr(source, desired_attr)
HasAttr(source, attr) == attr \in DOMAIN source.methods

\* Mutant: the enabled flag is not looked at.
is_source_valid_any(source, desired_attr) ==
    IF ~HasAttr(source, desired_attr) THEN FALSE
    ELSE TRUE

is_source_valid(source, desired_attr) ==
    IF ~source.enabled THEN FALSE
    ELSE IF ~HasAttr(source, desired_attr) THEN FALSE
    ELSE TRUE

\* for arg in args: speed += source_method.speed_index.get(arg, 0)
RECURSIVE SumExtras(_, _)
SumExtras(si, remaining) ==
    IF remaining = {} THEN 0
    ELSE LET arg == CHOOSE a \in remaining : TRUE
         IN DictGet(si, arg, 0) + SumExtras(si, remaining \ {arg})

get_source_speed_score(source, fname, arguments) ==
    LET si == source.methods[fname]
    IN DictGet(si, "base", 0) + SumExtras(si, arguments)

\* Mutant: the best score so far is never stored, so that any later source
\* with a positive score takes over.
RECURSIVE ResolveLoop_stale_score(_, _, _, _, _, _)
ResolveLoop_stale_score(srcs, fname, arguments, i, speed_score, source_method) ==
    IF i > Len(srcs) THEN [speed_score |-> speed_score, source_method |-> source_method]
    ELSE IF is_source_valid(srcs[i], fname)
              /\ get_source_speed_score(srcs[i], fname, arguments) > speed_score
         THEN ResolveLoop_stale_score(srcs, fname, arguments, i + 1, speed_score, i)
         ELSE ResolveLoop_stale_score(srcs, fname, arguments, i + 1, speed_score,
                                      source_method)

\* Mutant: on equal scores the source of higher priority takes over.
RECURSIVE ResolveLoop_by_priority(_, _, _, _, _, _)
ResolveLoop_by_priority(srcs, fname, arguments, i, speed_score, source_method) ==
    IF i > Len(srcs) THEN [speed_score |-> speed_score, source_method |-> source_method]
    ELSE IF is_source_valid(srcs[i], fname)
         THEN LET source_speed_score == get_source_speed_score(srcs[i], fname, arguments)
              IN IF \/ source_speed_score > speed_score
                    \/ /\ source_speed_score = speed_score
                       /\ source_method # 0
                       /\ srcs[i].priority > srcs[source_method].priority
                 THEN ResolveLoop_by_priority(srcs, fname, arguments, i + 1,
                                              source_speed_score, i)
                 ELSE ResolveLoop_by_priority(srcs, fname, arguments, i + 1,
                                              speed_score, source_method)
         ELSE ResolveLoop_by_priority(srcs, fname, arguments, i + 1, speed_score,
                                      source_method)

\* The for loop of get_source_method from source number i on; source_method
\* is the index of the source whose method is held, 0 for None.
RECURSIVE ResolveLoop(_, _, _, _, _, _)
ResolveLoop(srcs, fname, arguments, i, speed_score, source_method) ==
    IF i > Len(srcs) THEN [speed_score |-> speed_score, source_method |-> source_method]
    ELSE IF is_source_valid(srcs[i], fname)
         THEN LET source_speed_score == get_source_speed_score(srcs[i], fname, arguments)
              IN IF source_speed_score > speed_score
                 THEN ResolveLoop(srcs, fname, arguments, i + 1, source_speed_score, i)
                 ELSE ResolveLoop(srcs, fname, arguments, i + 1, speed_score, source_method)
         ELSE ResolveLoop(srcs, fname, arguments, i + 1, speed_score, source_method)

NotCalled == [raised |-> "", method |-> 0, calls |-> 0, invoked |-> {}]

\* Mutant: the method chosen is called and the source that ran it is
\* switched off.
get_source_method_invoking(srcs, fname, arguments) ==
    LET end == ResolveLoop(srcs, fname, arguments, 1, 0, 0)
    IN IF end.source_method = 0
       THEN [raised |-> "NoSupportedSourcesFound", method |-> 0,
             sources |-> srcs, invoked |-> {}]
       ELSE [raised |-> "", method |-> end.source_method,
             sources |-> [srcs EXCEPT ![end.source_method].enabled = FALSE],
             invoked |-> {end.source_method}]

\* What a call did: the exception it raised ("" for none), the source whose
\* method it returned (0 for none), the sources as it leaves them and the
\* sources whose method it called.  The code reads source.enabled, looks the
\* method up with hasattr and getattr and reads its speed_index; it has no
\* assignment to a source and no call of a method.
get_source_method(srcs, fname, arguments) ==
    LET end == ResolveLoop(srcs, fname, arguments, 1, 0, 0)
    IN IF end.source_method = 0
       THEN [raised |-> "NoSupportedSourcesFound", method |-> 0,
             sources |-> srcs, invoked |-> {}]
       ELSE [raised |-> "", method |-> end.source_method,
             sources |-> srcs, invoked |-> {}]

Candidates ==
    {i \in 1..Len(sources) : sources[i].enabled /\ func_name \in DOMAIN sources[i].methods}

RECURSIVE SumOf(_, _)
SumOf(f, S) ==
    IF S = {} THEN 0
    ELSE LET x == CHOOSE y \in S : TRUE IN f[x] + SumOf(f, S \ {x})

Score(i) ==
    LET si == sources[i].methods[func_name]
    IN (IF "base" \in DOMAIN si THEN si["base"] ELSE 0)
       + SumOf([a \in args |-> IF a \in DOMAIN si THEN si[a] ELSE 0], args)

Best == {i \in Candidates : \A j \in Candidates : Score(j) <= Score(i)}
Earliest(S) == CHOOSE i \in S : \A j \in S : i <= j
Returned == outcome.calls > 0 /\ outcome.raised = ""
Raised == outcome.calls > 0 /\ outcome.raised = "NoSupportedSourcesFound"

\* C1: get_source_method raises NoSupportedSourcesFound whenever no attached
\* source is both enabled and declares the operation (an empty list, only
\* disabled sources, enabled sources without the operation).
C1_RaisesWithoutCandidate ==
    (outcome.calls > 0 /\ Candidates = {}) => Raised

\* A disabled source that declares the operation beside an enabled one that
\* does not: the call raised.
C1_Witness ==
    /\ Raised
    /\ Len(sources) = 2
    /\ ~sources[1].enabled /\ func_name \in DOMAIN sources[1].methods
    /\ sources[1].methods[func_name] = ("base" :> 2)
    /\ sources[2].enabled /\ func_name \notin DOMAIN sources[2].methods

\* C2 (as claimed): whenever some enabled source declares the operation,
\* whatever the speed scores, the call does not raise and returns the method
\* of one of those sources.
C2_ReturnsWithCandidate ==
    (outcome.calls > 0 /\ Candidates # {}) => (Returned /\ outcome.method \in Candidates)

\* C3: the method returned belongs to a candidate of maximal score (base plus
\* the extras of the user's arguments, 0 where absent); with X at base 1 and
\* Y at base 2 and no arguments, Y is returned in either order.
C3_ScenarioA(x, y) ==
    /\ Len(sources) = 2 /\ {x, y} = {1, 2}
    /\ sources[x].enabled /\ sources[y].enabled
    /\ sources[x].methods = (func_name :> ("base" :> 1))
    /\ sources[y].methods = (func_name :> ("base" :> 2))
    /\ args = {}

C3_ReturnedHasMaxScore ==
    /\ Returned => outcome.method \in Best
    /\ \A x, y \in {1, 2} :
          (outcome.calls > 0 /\ C3_ScenarioA(x, y)) => (Returned /\ outcome.method = y)

\* Y attached first, X second: Y was returned.
C3_Witness ==
    /\ Returned /\ C3_ScenarioA(2, 1) /\ outcome.method = 1

\* C4 (as claimed): when several candidates share the maximal score, the
\* method of the earliest of them in the list is returned.
C4_TieReturnsEarliest ==
    (outcome.calls > 0 /\ Cardinality(Best) > 1)
        => (Returned /\ outcome.method = Earliest(Best))

\* C5: a second call on the same list, operation and arguments returns what
\* the first returned, whatever priorities the sources were given in between.
C5_PriorityIndependent ==
    [][(outcome.calls >= 1 /\ outcome'.calls > outcome.calls)
         => (outcome'.raised = outcome.raised /\ outcome'.method = outcome.method)]_vars

\* Two candidates tie on the best score, the later one was given the higher
\* priority before the second call, and the earlier one was returned again.
C5_Witness ==
    /\ outcome.calls = 2 /\ outcome.raised = ""
    /\ \E i, j \in Best :
          /\ i < j
          /\ sources[j].priority > sources[i].priority
          /\ outcome.method = i

(***************************************************************************)
(* The model tree: Python objects on a heap                                *)
(*                                                                         *)
(* heap.job, heap.build and heap.test map references to objects; a dict of *)
(* children maps each key to the reference of the child, so that           *)
(* `self.builds[build_id] = build` stores the caller's object itself.      *)
(* A dict is a function; Python iterates it in insertion order, the loops  *)
(* below in an arbitrary fixed order (each key's step touches that key's   *)
(* child alone).  Test's class_name is left out.                           *)
(***************************************************************************)
JobNames == {"j1"}
BuildIds == {"1", "2"}
TestNames == {"t1", "t2"}
SysTestName == "t1"
HeldBuildId == "1"
Urls == {"u1", "u2"}
RawStatuses == {"success", "FAILURE"}
RawResults == {"failure"}
Durations == {25}
\* duration: int = None
NoDuration == -1

\* System.__init__ and ZuulSystem.__init__: the class and top_level_model
SystemObj == [cls |-> "System", top_level_model |-> "Job"]
ZuulSystemObj == [cls |-> "ZuulSystem", top_level_model |-> "Pipeline"]

\* No resolver call and no validation is part of the behaviour.
NoResolver == sources = <<>> /\ func_name = "" /\ args = {} /\ outcome = NotCalled
NotValidated == [pc |-> "none", raised |-> ""]
NoValidator == environments = <<>> /\ ci_args = EmptyDict /\ validation = NotValidated

\* No job has a deployment attribute (the plugin is not loaded) and no call
\* on a Jenkins source is part of the behaviour.
NoPlugin == deployment = EmptyDict
NotRequested == [op |-> "none"]
NoJenkins == jenkins = NotRequested

EmptyHeap == [job |-> EmptyDict, build |-> EmptyDict, test |-> EmptyDict]
NoRef == <<>>
NoCall == [op |-> "idle", self |-> NoRef, other |-> NoRef, times |-> 0]
NoPre == [heap |-> EmptyHeap, jobs |-> EmptyDict]

\* `not value` for a str or None, and for an int or None
Falsy(v) == v = None \/ v = ""
FalsyInt(d) == d = NoDuration \/ d = 0

\* str.upper() on the strings of the model
Upper(s) ==
    CASE s = "success" -> "SUCCESS"
      [] s = "failure" -> "FAILURE"
      [] OTHER -> s

\* Test(name, result, duration): the result is upper-cased like a Build's status
TestObj(name, result, duration) ==
    [name |-> name,
     result |-> IF result # None THEN Upper(result) ELSE None,
     duration |-> duration]

\* Build.__init__
BuildObj(build_id, status, duration, tests) ==
    [build_id |-> build_id,
     status |-> IF status # None THEN Upper(status) ELSE None,
     duration |-> duration,
     tests |-> tests]

\* Job.__init__
JobObj(name, url, builds) ==
    [cls |-> "Job", name |-> name, url |-> url, builds |-> builds]

\* a str as the operand of a comparison with a model object
StrObj(s) == [cls |-> "str", value |-> s]

\* Job.__eq__
Job_eq(self, other) ==
    IF other.cls # "Job" THEN FALSE
    ELSE self.name = other.name

\* `key in self.tests`, `key in self.builds`: AttributeDictValue looks the key up
DictContains(d, key) == key \in DOMAIN d

\* `x in d.values()`: some value of the dict equals x
InJobValues(h, d, x) == \E k \in DOMAIN d : Job_eq(h.job[d[k]], x)

\* d[key] = ref
DictSet(d, key, ref) == [k \in DOMAIN d \cup {key} |-> IF k = key THEN ref ELSE d[k]]

\* Test.merge
Test_merge(h, self, other) ==
    LET h1 == IF Falsy(h.test[self].result)
              THEN [h EXCEPT !.test[self].result = h.test[other].result]
              ELSE h
    IN IF FalsyInt(h1.test[self].duration)
       THEN [h1 EXCEPT !.test[self].duration = h1.test[other].duration]
       ELSE h1

\* Mutant: a test whose name the build has already takes the place of the old one.
Build_add_test_replace(h, self, test) ==
    LET test_name == h.test[test].name
    IN [h EXCEPT !.build[self].tests = DictSet(@, test_name, test)]

\* Build.add_test
Build_add_test(h, self, test) ==
    LET test_name == h.test[test].name
    IN IF DictContains(h.build[self].tests, test_name)
       THEN Test_merge(h, h.build[self].tests[test_name], test)
       ELSE [h EXCEPT !.build[self].tests = DictSet(@, test_name, test)]

\* for test in other.tests.values(): self.add_test(test)
RECURSIVE Build_merge_loop(_, _, _, _)
Build_merge_loop(h, self, other, remaining) ==
    IF remaining = {} THEN h
    ELSE LET k == CHOOSE x \in remaining : TRUE
         IN Build_merge_loop(Build_add_test(h, self, h.build[other].tests[k]),
                             self, other, remaining \ {k})

\* Mutant: the test on the status is inverted, a status is only ever written
\* over one that is set.
Build_merge_inverted(h, self, other) ==
    LET h1 == IF ~Falsy(h.build[self].status)
              THEN [h EXCEPT !.build[self].status = h.build[other].status]
              ELSE h
    IN Build_merge_loop(h1, self, other, DOMAIN h1.build[other].tests)

\* Mutant: the incoming duration is added to the build's own.
Build_merge_sum_duration(h, self, other) ==
    LET h1 == IF Falsy(h.build[self].status)
              THEN [h EXCEPT !.build[self].status = h.build[other].status]
              ELSE h
        h2 == IF ~FalsyInt(h1.build[other].duration)
              THEN [h1 EXCEPT !.build[self].duration =
                       (IF FalsyInt(@) THEN 0 ELSE @) + h1.build[other].duration]
              ELSE h1
    IN Build_merge_loop(h2, self, other, DOMAIN h2.build[other].tests)

\* Build.merge
Build_merge(h, self, other) ==
    LET h1 == IF Falsy(h.build[self].status)
              THEN [h EXCEPT !.build[self].status = h.build[other].status]
              ELSE h
    IN Build_merge_loop(h1, self, other, DOMAIN h1.build[other].tests)

\* Mutant: a build whose id the job has already takes the place of the old one.
Job_add_build_replace(h, self, build) ==
    LET build_id == h.build[build].build_id
    IN [h EXCEPT !.job[self].builds = DictSet(@, build_id, build)]

\* Job.add_build
Job_add_build(h, self, build) ==
    LET build_id == h.build[build].build_id
    IN IF DictContains(h.job[self].builds, build_id)
       THEN Build_merge(h, h.job[self].builds[build_id], build)
       ELSE [h EXCEPT !.job[self].builds = DictSet(@, build_id, build)]

\* for build in other.builds.values(): self.add_build(build)
RECURSIVE Job_merge_loop(_, _, _, _)
Job_merge_loop(h, self, other, remaining) ==
    IF remaining = {} THEN h
    ELSE LET k == CHOOSE x \in remaining : TRUE
         IN Job_merge_loop(Job_add_build(h, self, h.job[other].builds[k]),
                           self, other, remaining \ {k})

\* Mutant: the url is filled inside the loop over the other job's builds, so
\* not at all when it has none.
Job_merge_fill_in_loop(h, self, other) ==
    LET h1 == IF Falsy(h.job[self].url) /\ DOMAIN h.job[other].builds # {}
              THEN [h EXCEPT !.job[self].url = h.job[other].url]
              ELSE h
    IN Job_merge_loop(h1, self, other, DOMAIN h1.job[other].builds)

\* Job.merge
Job_merge(h, self, other) ==
    LET h1 == IF Falsy(h.job[self].url)
              THEN [h EXCEPT !.job[self].url = h.job[other].url]
              ELSE h
    IN Job_merge_loop(h1, self, other, DOMAIN h1.job[other].builds)

\* System.add_job: the heap and the system's jobs dict after the call
System_add_job(h, sysjobs, job) ==
    LET job_name == h.job[job].name
    IN IF InJobValues(h, sysjobs, StrObj(job_name))
       THEN [heap |-> Job_merge(h, sysjobs[job_name], job), jobs |-> sysjobs]
       ELSE [heap |-> h, jobs |-> DictSet(sysjobs, job_name, job)]

(***************************************************************************)
(* Partial trees as a caller builds them, and their place on the heap      *)
(***************************************************************************)
\* The arguments of Test(...), Build(...) and Job(...), children included.
TestArgsOf(names, results, durations) ==
    [name : names, result : results, duration : durations]

TestDictsOf(testArgs, names) ==
    UNION {{d \in [ks -> testArgs] : \A k \in ks : d[k].name = k} : ks \in SUBSET names}

BuildArgsOf(ids, statuses, durations, testDicts) ==
    [build_id : ids, status : statuses, duration : durations, tests : testDicts]

\* What is handed to a standalone Build: tests of every name and shape.
TestArgs == TestArgsOf(TestNames, RawResults \cup {None}, Durations \cup {NoDuration})
BuildArgs ==
    BuildArgsOf({HeldBuildId}, RawStatuses \cup {None}, Durations \cup {NoDuration},
                TestDictsOf(TestArgs, TestNames))

\* What is handed to a System's tree: a partial Job carries at most one
\* build, a build at most the test SysTestName, and no durations.
SysTestArgs == TestArgsOf({SysTestName}, RawResults \cup {None}, {NoDuration})
SysBuildArgs ==
    BuildArgsOf(BuildIds, RawStatuses \cup {None}, {NoDuration},
                TestDictsOf(SysTestArgs, {SysTestName}))
SysBuildDicts ==
    UNION {{d \in [ks -> SysBuildArgs] : \A k \in ks : d[k].build_id = k} :
           ks \in {s \in SUBSET BuildIds : Cardinality(s) <= 1}}
JobArgs == [name : JobNames, url : Urls \cup {None}, builds : SysBuildDicts]

\* References: <<tag, job>>, <<tag, job, build>>, <<tag, job, build, test>>;
\* tag "sys" for the objects of the system's tree, "loc" for the standalone
\* build a caller holds, "in" for the objects of the call in progress.
NewTestRef(name) == <<"in", "-", "-", name>>
NewBuildRef(id) == <<"in", "-", id>>
NewJobRef(name) == <<"in", name>>
HeldBuildRef == <<"loc", "-", HeldBuildId>>

\* test = Test(name, result, duration)
AllocTest(h, ref, ta) ==
    [h EXCEPT !.test = (ref :> TestObj(ta.name, ta.result, ta.duration)) @@ @]

\* build = Build(build_id, status, duration, tests={name: Test(...)})
AllocBuild(h, ref, ba) ==
    LET trefs == [n \in DOMAIN ba.tests |-> <<ref[1], ref[2], ref[3], n>>]
        tcells == [r \in {trefs[n] : n \in DOMAIN ba.tests} |->
                      TestObj(ba.tests[r[4]].name, ba.tests[r[4]].result,
                              ba.tests[r[4]].duration)]
    IN [h EXCEPT !.test = tcells @@ @,
                 !.build = (ref :> BuildObj(ba.build_id, ba.status, ba.duration, trefs)) @@ @]

\* job = Job(name, url, builds={id: Build(...)})
RECURSIVE AllocBuilds(_, _, _, _)
AllocBuilds(h, jref, bdict, remaining) ==
    IF remaining = {} THEN h
    ELSE LET k == CHOOSE x \in remaining : TRUE
         IN AllocBuilds(AllocBuild(h, <<jref[1], jref[2], k>>, bdict[k]),
                        jref, bdict, remaining \ {k})

AllocJob(h, ref, ja) ==
    LET brefs == [id \in DOMAIN ja.builds |-> <<ref[1], ref[2], id>>]
        h1 == AllocBuilds(h, ref, ja.builds, DOMAIN ja.builds)
    IN [h1 EXCEPT !.job = (ref :> JobObj(ja.name, ja.url, brefs)) @@ @]

\* The objects reachable from the system and from the held build, renamed
\* to their paths; what no one refers to any more is dropped.
Canon(h, sysjobs, hb) ==
    LET jref(n) == sysjobs[n]
        bref(r) == IF r[1] = "loc" THEN hb ELSE h.job[jref(r[2])].builds[r[3]]
        tref(r) == h.build[bref(r)].tests[r[4]]
        JR == {<<"sys", n>> : n \in DOMAIN sysjobs}
        BR == UNION {{<<"sys", n, id>> : id \in DOMAIN h.job[jref(n)].builds} :
                     n \in DOMAIN sysjobs}
              \cup (IF hb = NoRef THEN {} ELSE {HeldBuildRef})
        TR == UNION {{<<b[1], b[2], b[3], t>> : t \in DOMAIN h.build[bref(b)].tests} :
                     b \in BR}
    IN [heap |->
          [job |-> [r \in JR |->
                      [h.job[jref(r[2])] EXCEPT
                          !.builds = [id \in DOMAIN @ |-> <<"sys", r[2], id>>]]],
           build |-> [r \in BR |->
                      [h.build[bref(r)] EXCEPT
                          !.tests = [t \in DOMAIN @ |-> <<r[1], r[2], r[3], t>>]]],
           test |-> [r \in TR |-> h.test[tref(r)]]],
        jobs |-> [n \in DOMAIN sysjobs |-> <<"sys", n>>]]

(***************************************************************************)
(* The merge engine's state machine.  The caller either owns a System and  *)
(* merges partial trees into it, or holds one standalone Build and merges  *)
(* builds and tests into that.  It builds a partial tree, hands it to one  *)
(* method, may hand the same objects in a second time, and lets go.        *)
(***************************************************************************)
InitSystem ==
    /\ heap = EmptyHeap
    /\ held = NoRef

\* build = Build(build_id)
InitBuild ==
    /\ heap = AllocBuild(EmptyHeap, HeldBuildRef,
                         [build_id |-> HeldBuildId, status |-> None,
                          duration |-> NoDuration, tests |-> EmptyDict])
    /\ held = HeldBuildRef

Init ==
    /\ InitSystem \/ InitBuild
    /\ system = SystemObj /\ pipelines = EmptyDict /\ error = ""
    /\ jobs = EmptyDict
    /\ call = NoCall
    /\ pre = NoPre
    /\ NoResolver /\ NoValidator /\ NoPlugin /\ NoJenkins

Idle == call.op = "idle"
OwnsSystem == held = NoRef

Begin(op, self, other, h0, h1, jobs1) ==
    /\ heap' = h1
    /\ jobs' = jobs1
    /\ call' = [op |-> op, self |-> self, other |-> other, times |-> 1]
    /\ pre' = [heap |-> h0, jobs |-> jobs]
    /\ UNCHANGED <<held, resolverVars, systemVars, validatorVars, pluginVars, jenkinsVars>>

\* system.add_job(Job(...))
AddJob ==
    /\ Idle /\ OwnsSystem
    /\ \E ja \in JobArgs :
        LET other == NewJobRef(ja.name)
            h0 == AllocJob(heap, other, ja)
            r == System_add_job(h0, jobs, other)
        IN Begin("System.add_job", <<"sys">>, other, h0, r.heap, r.jobs)

\* job.merge(Job(...)) on a job of the system, with a job of the same name
MergeJob ==
    /\ Idle
    /\ \E n \in DOMAIN jobs, ja \in JobArgs :
        LET other == NewJobRef(ja.name)
            h0 == AllocJob(heap, other, ja)
        IN /\ ja.name = n
           /\ Begin("Job.merge", jobs[n], other, h0, Job_merge(h0, jobs[n], other), jobs)

\* job.add_build(Build(...))
AddBuild ==
    /\ Idle
    /\ \E n \in DOMAIN jobs, ba \in SysBuildArgs :
        LET other == NewBuildRef(ba.build_id)
            h0 == AllocBuild(heap, other, ba)
        IN Begin("Job.add_build", jobs[n], other, h0,
                 Job_add_build(h0, jobs[n], other), jobs)

\* build.merge(Build(...)) with a build of the same id
MergeBuild ==
    /\ Idle
    /\ \E b \in DOMAIN heap.build :
         \E ba \in IF OwnsSystem THEN SysBuildArgs ELSE BuildArgs :
            LET other == NewBuildRef(ba.build_id)
                h0 == AllocBuild(heap, other, ba)
            IN /\ ba.build_id = heap.build[b].build_id
               /\ Begin("Build.merge", b, other, h0, Build_merge(h0, b, other), jobs)

\* build.add_test(Test(...))
AddTest ==
    /\ Idle
    /\ \E b \in DOMAIN heap.build :
         \E ta \in IF OwnsSystem THEN SysTestArgs ELSE TestArgs :
            LET other == NewTestRef(ta.name)
                h0 == AllocTest(heap, other, ta)
            IN Begin("Build.add_test", b, other, h0, Build_add_test(h0, b, other), jobs)

\* test.merge(Test(...)) with a test of the same name
MergeTest ==
    /\ Idle
    /\ \E t \in DOMAIN heap.test :
         \E ta \in IF OwnsSystem THEN SysTestArgs ELSE TestArgs :
            LET other == NewTestRef(ta.name)
                h0 == AllocTest(heap, other, ta)
            IN /\ ta.name = heap.test[t].name
               /\ Begin("Test.merge", t, other, h0, Test_merge(h0, t, other), jobs)

\* job.merge(job), build.merge(build), test.merge(test): an object merged
\* with itself
MergeJobSelf ==
    /\ Idle
    /\ \E j \in DOMAIN heap.job :
        Begin("Job.merge", j, j, heap, Job_merge(heap, j, j), jobs)

MergeBuildSelf ==
    /\ Idle
    /\ \E b \in DOMAIN heap.build :
        Begin("Build.merge", b, b, heap, Build_merge(heap, b, b), jobs)

MergeTestSelf ==
    /\ Idle
    /\ \E t \in DOMAIN heap.test :
        Begin("Test.merge", t, t, heap, Test_merge(heap, t, t), jobs)

\* The method of the call in progress, applied to self and other.
Apply(h, sysjobs, c) ==
    CASE c.op = "System.add_job" -> System_add_job(h, sysjobs, c.other)
      [] c.op = "Job.merge" -> [heap |-> Job_merge(h, c.self, c.other), jobs |-> sysjobs]
      [] c.op = "Job.add_build" -> [heap |-> Job_add_build(h, c.self, c.other), jobs |-> sysjobs]
      [] c.op = "Build.merge" -> [heap |-> Build_merge(h, c.self, c.other), jobs |-> sysjobs]
      [] c.op = "Build.add_test" -> [heap |-> Build_add_test(h, c.self, c.other), jobs |-> sysjobs]
      [] c.op = "Test.merge" -> [heap |-> Test_merge(h, c.self, c.other), jobs |-> sysjobs]

\* The caller repeats the call with the same objects.
Again ==
    /\ ~Idle
    /\ call.times < MaxTimes
    /\ LET r == Apply(heap, jobs, call)
       IN heap' = r.heap /\ jobs' = r.jobs
    /\ call' = [call EXCEPT !.times = @ + 1]
    /\ UNCHANGED <<pre, held, resolverVars, systemVars, validatorVars,
                   pluginVars, jenkinsVars>>

\* The caller lets go of the objects it handed in.
Return ==
    /\ ~Idle
    /\ LET r == Canon(heap, jobs, held)
       IN heap' = r.heap /\ jobs' = r.jobs
    /\ call' = NoCall
    /\ pre' = NoPre
    /\ UNCHANGED <<held, resolverVars, systemVars, validatorVars, pluginVars, jenkinsVars>>

Next ==
    \/ AddJob \/ MergeJob \/ AddBuild \/ MergeBuild \/ AddTest \/ MergeTest
    \/ MergeJobSelf \/ MergeBuildSelf \/ MergeTestSelf \/ Again \/ Return

Spec == Init /\ [][Next]_vars

(***************************************************************************)
(* Properties of the merge engine (checked under Spec).  While a call is   *)
(* in progress pre.heap is the heap the method was called on, the incoming *)
(* objects included, and heap the one it left.                             *)
(***************************************************************************)
MergeOps == {"Job.merge", "Build.merge", "Test.merge"}
FirstCall(op) == call.op = op /\ call.times = 1
Distinct == call.other # call.self

\* C6: fill-if-absent.  After Build.merge, Job.merge and Test.merge, a
\* scalar field (Build status, Job url, Test result, Test duration) that was
\* unset on the existing entity and set on the incoming one has the incoming
\* value.
C6_FillIfAbsent ==
    /\ FirstCall("Build.merge") =>
          LET e == pre.heap.build[call.self]
              i == pre.heap.build[call.other]
          IN (e.status = None /\ i.status # None)
                => heap.build[call.self].status = i.status
    /\ FirstCall("Job.merge") =>
          LET e == pre.heap.job[call.self]
              i == pre.heap.job[call.other]
          IN (e.url = None /\ i.url # None) => heap.job[call.self].url = i.url
    /\ FirstCall("Test.merge") =>
          LET e == pre.heap.test[call.self]
              i == pre.heap.test[call.other]
          IN /\ (e.result = None /\ i.result # None)
                   => heap.test[call.self].result = i.result
             /\ (e.duration = NoDuration /\ i.duration # NoDuration)
                   => heap.test[call.self].duration = i.duration

\* A build without a status took the status of the build merged into it.
C6_Witness ==
    /\ FirstCall("Build.merge") /\ Distinct
    /\ pre.heap.build[call.self].status = None
    /\ pre.heap.build[call.other].status = "SUCCESS"
    /\ heap.build[call.self].status = "SUCCESS"

\* C7 (as claimed): first-writer-wins.  No step (add_job, add_build,
\* add_test, merge) changes a url that is set on a job of the system's tree
\* or a status that is set on one of its builds or on the held build.
C7_FirstWriterWins ==
    [][/\ \A n \in DOMAIN jobs :
            LET j == heap.job[jobs[n]]
            IN /\ j.url # None =>
                     (n \in DOMAIN jobs' /\ heap'.job[jobs'[n]].url = j.url)
               /\ \A id \in DOMAIN j.builds :
                     heap.build[j.builds[id]].status # None =>
                        /\ n \in DOMAIN jobs'
                        /\ id \in DOMAIN heap'.job[jobs'[n]].builds
                        /\ heap'.build[heap'.job[jobs'[n]].builds[id]].status
                              = heap.build[j.builds[id]].status
       /\ (held # NoRef /\ heap.build[held].status # None) =>
             heap'.build[held].status = heap.build[held].status]_vars

\* C8 (as claimed): after Build.merge, a duration that was unset on the
\* existing build and set on the incoming build of the same id is the
\* existing build's duration.
C8_BuildDurationFilled ==
    FirstCall("Build.merge") =>
       LET e == pre.heap.build[call.self]
           i == pre.heap.build[call.other]
       IN (e.build_id = i.build_id /\ e.duration = NoDuration /\ i.duration # NoDuration)
             => heap.build[call.self].duration = i.duration

\* C9: merging never drops a child.  After Build.merge the build's test
\* names are those of both builds; after Job.merge the job's build ids are
\* those of both jobs and each build has the test names it had on either
\* side.
C9_TestsOf(h, builds, id) ==
    IF id \in DOMAIN builds THEN DOMAIN h.build[builds[id]].tests ELSE {}

C9_MergeKeepsChildren ==
    /\ FirstCall("Build.merge") =>
          DOMAIN heap.build[call.self].tests =
             DOMAIN pre.heap.build[call.self].tests
                \cup DOMAIN pre.heap.build[call.other].tests
    /\ FirstCall("Job.merge") =>
          LET e == pre.heap.job[call.self]
              i == pre.heap.job[call.other]
              r == heap.job[call.self]
          IN /\ DOMAIN r.builds = DOMAIN e.builds \cup DOMAIN i.builds
             /\ \A id \in DOMAIN r.builds :
                   DOMAIN heap.build[r.builds[id]].tests =
                      C9_TestsOf(pre.heap, e.builds, id)
                         \cup C9_TestsOf(pre.heap, i.builds, id)

\* A job with two builds was merged with a job that has one of them, the
\* job's own with a test and the incoming one without: both builds and the
\* test are there.
C9_Witness ==
    /\ FirstCall("Job.merge") /\ Distinct
    /\ LET e == pre.heap.job[call.self]
           i == pre.heap.job[call.other]
       IN /\ DOMAIN e.builds = BuildIds
          /\ \E id \in DOMAIN i.builds :
                /\ C9_TestsOf(pre.heap, e.builds, id) = {SysTestName}
                /\ C9_TestsOf(pre.heap, i.builds, id) = {}
                /\ C9_TestsOf(heap, heap.job[call.self].builds, id) = {SysTestName}
    /\ DOMAIN heap.job[call.self].builds = BuildIds

\* C10: merge is idempotent.  Merging a Job, Build or Test with itself
\* leaves the heap as it was, and so does merging the same incoming object
\* into the same entity once more.
C10_MergeIdempotent ==
    [][/\ (call.op = "idle" /\ call'.op \in MergeOps /\ call'.other = call'.self)
             => heap' = heap
       /\ (call.op \in MergeOps /\ call'.times > call.times)
             => (heap' = heap /\ jobs' = jobs)]_vars

\* A job was merged twice with the same incoming job, and the first merge
\* had filled its url and given it a build.
C10_Witness ==
    /\ call.op = "Job.merge" /\ call.times = 2 /\ Distinct
    /\ pre.heap.job[call.self].url = None
    /\ heap.job[call.self].url # None
    /\ DOMAIN heap.job[call.self].builds # DOMAIN pre.heap.job[call.self].builds

\* C12: Job.add_build and Build.add_test merge into a child that is there.
\* Adding a build whose id the job has keeps the job's build object under
\* that id, with its status if it had one and else the new build's, and with
\* the tests of both; adding a test whose name the build has keeps the
\* build's test object, its unset fields filled from the new test.
C12_FirstSet(old, new) == IF old # None THEN old ELSE new
C12_FirstSetInt(old, new) == IF old # NoDuration THEN old ELSE new

C12_AddMergesExisting ==
    /\ FirstCall("Job.add_build") =>
          LET i == pre.heap.build[call.other]
              old == pre.heap.job[call.self].builds
              new == heap.job[call.self].builds
          IN i.build_id \in DOMAIN old =>
                /\ new = old
                /\ heap.build[new[i.build_id]].status =
                      C12_FirstSet(pre.heap.build[old[i.build_id]].status, i.status)
                /\ DOMAIN heap.build[new[i.build_id]].tests =
                      DOMAIN pre.heap.build[old[i.build_id]].tests \cup DOMAIN i.tests
    /\ FirstCall("Build.add_test") =>
          LET i == pre.heap.test[call.other]
              old == pre.heap.build[call.self].tests
              new == heap.build[call.self].tests
          IN i.name \in DOMAIN old =>
                /\ new = old
                /\ heap.test[new[i.name]].result =
                      C12_FirstSet(pre.heap.test[old[i.name]].result, i.result)
                /\ heap.test[new[i.name]].duration =
                      C12_FirstSetInt(pre.heap.test[old[i.name]].duration, i.duration)

\* Scenario B: the job has build "1" with status SUCCESS and no tests; a
\* build "1" without status and with test t1 was added; the job has the one
\* build "1", SUCCESS, with t1.
C12_Witness ==
    /\ FirstCall("Job.add_build")
    /\ LET i == pre.heap.build[call.other]
           old == pre.heap.job[call.self].builds
           b == heap.build[heap.job[call.self].builds["1"]]
       IN /\ DOMAIN old = {"1"}
          /\ pre.heap.build[old["1"]].status = "SUCCESS"
          /\ pre.heap.build[old["1"]].tests = EmptyDict
          /\ i.build_id = "1" /\ i.status = None /\ DOMAIN i.tests = {"t1"}
          /\ DOMAIN heap.job[call.self].builds = {"1"}
          /\ b.status = "SUCCESS" /\ DOMAIN b.tests = {"t1"}

\* C13 (as claimed): System.add_job merges into a job that is there.  After
\* add_job with a job whose name the system has, the system has one job
\* under that name: the job it had, with the url it had if it had one and
\* with its builds and those of the new job.
C13_AddJobMergesExisting ==
    FirstCall("System.add_job") =>
       LET i == pre.heap.job[call.other]
       IN i.name \in DOMAIN pre.jobs =>
             LET old == pre.heap.job[pre.jobs[i.name]]
                 new == heap.job[jobs[i.name]]
             IN /\ DOMAIN jobs = DOMAIN pre.jobs
                /\ old.url # None => new.url = old.url
                /\ DOMAIN new.builds = DOMAIN old.builds \cup DOMAIN i.builds

(***************************************************************************)
(* Merging three jobs of one name: e, a and b are built twice; on the left *)
(* a and then b are merged into e, on the right b is merged into a and     *)
(* then a into e.  call.times counts the merges done.                      *)
(***************************************************************************)
AssocRef(tag) == <<tag, CHOOSE n \in JobNames : TRUE>>
AssocHeap(e, a, b) ==
    LET h1 == AllocJob(EmptyHeap, AssocRef("eL"), e)
        h2 == AllocJob(h1, AssocRef("aL"), a)
        h3 == AllocJob(h2, AssocRef("bL"), b)
        h4 == AllocJob(h3, AssocRef("eR"), e)
        h5 == AllocJob(h4, AssocRef("aR"), a)
    IN AllocJob(h5, AssocRef("bR"), b)

\* The job e up to the naming of urls, build ids and statuses: if it has a
\* url it is "u1", if it has a build it is build "1", not failed.
AssocFirstArgs ==
    {ja \in JobArgs :
        /\ ja.url # "u2"
        /\ \A id \in DOMAIN ja.builds : id = "1" /\ ja.builds[id].status # "FAILURE"}

InitAssoc ==
    /\ system = SystemObj /\ pipelines = EmptyDict /\ error = ""
    /\ heap \in {AssocHeap(e, a, b) : e \in AssocFirstArgs, a \in JobArgs, b \in JobArgs}
    /\ jobs = EmptyDict /\ held = NoRef
    /\ call = [op |-> "Job.merge", self |-> NoRef, other |-> NoRef, times |-> 0]
    /\ pre = NoPre
    /\ NoResolver /\ NoValidator /\ NoPlugin /\ NoJenkins

\* e.merge(a); e.merge(b)
MergeLeftA ==
    /\ call.self = NoRef /\ call.times = 0
    /\ heap' = Job_merge(heap, AssocRef("eL"), AssocRef("aL"))
    /\ call' = [call EXCEPT !.self = AssocRef("eL"), !.other = AssocRef("aL"), !.times = 1]
    /\ UNCHANGED <<jobs, held, pre, resolverVars, systemVars, validatorVars,
                   pluginVars, jenkinsVars>>

MergeLeftB ==
    /\ call.self = AssocRef("eL") /\ call.times = 1
    /\ heap' = Job_merge(heap, AssocRef("eL"), AssocRef("bL"))
    /\ call' = [call EXCEPT !.other = AssocRef("bL"), !.times = 2]
    /\ UNCHANGED <<jobs, held, pre, resolverVars, systemVars, validatorVars,
                   pluginVars, jenkinsVars>>

\* a.merge(b); e.merge(a)
MergeRightB ==
    /\ call.self = AssocRef("eL") /\ call.times = 2
    /\ heap' = Job_merge(heap, AssocRef("aR"), AssocRef("bR"))
    /\ call' = [call EXCEPT !.self = AssocRef("aR"), !.other = AssocRef("bR"), !.times = 3]
    /\ UNCHANGED <<jobs, held, pre, resolverVars, systemVars, validatorVars,
                   pluginVars, jenkinsVars>>

MergeRightA ==
    /\ call.self = AssocRef("aR") /\ call.times = 3
    /\ heap' = Job_merge(heap, AssocRef("eR"), AssocRef("aR"))
    /\ call' = [call EXCEPT !.self = AssocRef("eR"), !.other = AssocRef("aR"), !.times = 4]
    /\ UNCHANGED <<jobs, held, pre, resolverVars, systemVars, validatorVars,
                   pluginVars, jenkinsVars>>

NextAssoc == MergeLeftA \/ MergeLeftB \/ MergeRightB \/ MergeRightA

SpecAssoc == InitAssoc /\ [][NextAssoc]_vars

\* The tree under a job: its fields and, by key, those of its builds and of
\* their tests.
TreeOf(h, j) ==
    [name |-> h.job[j].name,
     url |-> h.job[j].url,
     builds |-> [id \in DOMAIN h.job[j].builds |->
                   LET b == h.build[h.job[j].builds[id]]
                   IN [build_id |-> b.build_id, status |-> b.status,
                       duration |-> b.duration,
                       tests |-> [t \in DOMAIN b.tests |-> h.test[b.tests[t]]]]]]

\* C11: merge is associative on identity.  For jobs e, a, b of one name,
\* merging a and then b into e leaves e with the same tree as merging into e
\* the job a into which b was merged.
C11_MergeAssociative ==
    (call.self = AssocRef("eR") /\ call.times = 4)
        => TreeOf(heap, AssocRef("eL")) = TreeOf(heap, AssocRef("eR"))

\* e took its url from b and a build from a, into which a test of b's build
\* of the same id was merged.
C11_Witness ==
    /\ call.self = AssocRef("eR") /\ call.times = 4
    /\ LET b == TreeOf(heap, AssocRef("bL"))
           e == TreeOf(heap, AssocRef("eR"))
       IN /\ heap.job[AssocRef("aL")].url = None
          /\ b.url # None /\ e.url = b.url
          /\ \E id \in DOMAIN b.builds :
                /\ id \in DOMAIN heap.job[AssocRef("aL")].builds
                /\ heap.job[AssocRef("eL")].builds[id] = heap.job[AssocRef("aL")].builds[id]
                /\ b.builds[id].status = None
                /\ DOMAIN b.builds[id].tests = {SysTestName}
                /\ e.builds[id].status = "SUCCESS"
                /\ DOMAIN e.builds[id].tests = {SysTestName}

(***************************************************************************)
(* Systems of both kinds: populate, add_job and add_pipeline.              *)
(*                                                                         *)
(* Here heap.job holds the top-level objects, Jobs and Pipelines alike:    *)
(* populate hands whatever the collection holds to add_job, which reads    *)
(* its name and stores it.  The jobs have no builds.                       *)
(***************************************************************************)
SysJobNames == {"j1", "j2"}
PipelineNames == {"check", "gate"}

\* Pipeline(name)
PipelineObj(name) == [cls |-> "Pipeline", name |-> name]

\* Pipeline.__eq__, of the shape of Job.__eq__
Pipeline_eq(self, other) ==
    IF other.cls # "Pipeline" THEN FALSE
    ELSE self.name = other.name

\* Pipeline.merge: a pipeline without jobs has nothing to take
Pipeline_merge(h, self, other) == h

\* `x in self.pipelines.values()`
InPipelineValues(h, d, x) == \E k \in DOMAIN d : Pipeline_eq(h.job[d[k]], x)

\* ZuulSystem.add_pipeline: the heap and the pipelines dict after the call
ZuulSystem_add_pipeline(h, syspipes, pipeline) ==
    LET pipeline_name == h.job[pipeline].name
    IN IF InPipelineValues(h, syspipes, StrObj(pipeline_name))
       THEN [heap |-> Pipeline_merge(h, syspipes[pipeline_name], pipeline),
             pipelines |-> syspipes]
       ELSE [heap |-> h, pipelines |-> DictSet(syspipes, pipeline_name, pipeline)]

\* for job in instances_dict.values(): self.add_job(job)
RECURSIVE System_populate_loop(_, _, _, _)
System_populate_loop(h, sysjobs, refs, remaining) ==
    IF remaining = {} THEN [heap |-> h, jobs |-> sysjobs]
    ELSE LET k == CHOOSE x \in remaining : TRUE
             r == System_add_job(h, sysjobs, refs[k])
         IN System_populate_loop(r.heap, r.jobs, refs, remaining \ {k})

\* Mutant: the element type of the collection is not looked at.
System_populate_unchecked(h, sys, sysjobs, refs, attr_type) ==
    LET r == System_populate_loop(h, sysjobs, refs, DOMAIN refs)
    IN [heap |-> r.heap, jobs |-> r.jobs, raised |-> ""]

\* System.populate, which ZuulSystem inherits: the heap, the jobs dict and
\* the exception raised
System_populate(h, sys, sysjobs, refs, attr_type) ==
    IF attr_type = sys.top_level_model
    THEN LET r == System_populate_loop(h, sysjobs, refs, DOMAIN refs)
         IN [heap |-> r.heap, jobs |-> r.jobs, raised |-> ""]
    ELSE [heap |-> h, jobs |-> sysjobs, raised |-> "NonSupportedModelType"]

\* The collections handed to populate: AttributeDictValue(name, value=
\* {name: Job(name, url)}, attr_type=Job) and the same of Pipelines.
PlainJobArgs == [name : SysJobNames, url : Urls \cup {None}, builds : {EmptyDict}]
JobCollections ==
    UNION {{d \in [ks -> PlainJobArgs] : \A k \in ks : d[k].name = k} :
           ks \in SUBSET SysJobNames}
PipelineCollections == {[k \in ks |-> PipelineObj(k)] : ks \in SUBSET PipelineNames}
Collections ==
    {[attr_type |-> "Job", value |-> d] : d \in JobCollections}
       \cup {[attr_type |-> "Pipeline", value |-> d] : d \in PipelineCollections}

\* The objects of a collection on the heap, each under <<"in", name>>.
AllocCollection(h, coll) ==
    [h EXCEPT !.job =
        [r \in {<<"in", k>> : k \in DOMAIN coll.value} |->
            IF coll.attr_type = "Job"
            THEN JobObj(coll.value[r[2]].name, coll.value[r[2]].url, EmptyDict)
            ELSE coll.value[r[2]]] @@ @]

\* The objects the system's two dicts refer to, renamed to their places.
CanonSystem(h, sysjobs, syspipes) ==
    [heap |-> [h EXCEPT !.job =
                  [r \in {<<"sys", n>> : n \in DOMAIN sysjobs}
                         \cup {<<"pipe", n>> : n \in DOMAIN syspipes} |->
                      IF r[1] = "sys" THEN h.job[sysjobs[r[2]]]
                      ELSE h.job[syspipes[r[2]]]]],
     jobs |-> [n \in DOMAIN sysjobs |-> <<"sys", n>>],
     pipelines |-> [n \in DOMAIN syspipes |-> <<"pipe", n>>]]

\* system = System(name, system_type) or system = ZuulSystem(name)
InitSystems ==
    /\ system \in {SystemObj, ZuulSystemObj}
    /\ heap = EmptyHeap /\ jobs = EmptyDict /\ pipelines = EmptyDict
    /\ error = "" /\ held = NoRef
    /\ call = NoCall
    /\ pre = [heap |-> EmptyHeap, jobs |-> EmptyDict, pipelines |-> EmptyDict]
    /\ NoResolver /\ NoValidator /\ NoPlugin /\ NoJenkins

\* A call on the system is over: call keeps its method and argument, pre
\* the heap and the dicts it was made on.
Called(op, arg, h0, h1, jobs1, pipelines1, raised) ==
    LET c == CanonSystem(h1, jobs1, pipelines1)
    IN /\ heap' = c.heap /\ jobs' = c.jobs /\ pipelines' = c.pipelines
       /\ error' = raised
       /\ call' = [op |-> op, self |-> system.cls, other |-> arg, times |-> 1]
       /\ pre' = [heap |-> h0, jobs |-> jobs, pipelines |-> pipelines]
       /\ UNCHANGED <<system, held, resolverVars, validatorVars, pluginVars, jenkinsVars>>

\* system.populate(collection)
Populate ==
    /\ system.cls \in {"System", "ZuulSystem"}
    /\ \E coll \in Collections :
        LET h0 == AllocCollection(heap, coll)
            refs == [k \in DOMAIN coll.value |-> <<"in", k>>]
            r == System_populate(h0, system, jobs, refs, coll.attr_type)
        IN Called("System.populate", coll, h0, r.heap, r.jobs, pipelines, r.raised)

\* system.add_job(Job(name, url)), on a System or on a ZuulSystem
SystemAddJob ==
    /\ system.cls \in {"System", "ZuulSystem"}
    /\ \E ja \in PlainJobArgs :
        LET other == <<"in", ja.name>>
            h0 == [heap EXCEPT !.job = (other :> JobObj(ja.name, ja.url, EmptyDict)) @@ @]
            r == System_add_job(h0, jobs, other)
        IN Called("System.add_job", ja, h0, r.heap, r.jobs, pipelines, "")

\* system.add_pipeline(Pipeline(name)), which only a ZuulSystem has
AddPipeline ==
    /\ system.cls = "ZuulSystem"
    /\ \E n \in PipelineNames :
        LET other == <<"in", n>>
            h0 == [heap EXCEPT !.job = (other :> PipelineObj(n)) @@ @]
            r == ZuulSystem_add_pipeline(h0, pipelines, other)
        IN Called("ZuulSystem.add_pipeline", PipelineObj(n), h0, r.heap, jobs,
                  r.pipelines, "")

NextSystems == Populate \/ SystemAddJob \/ AddPipeline

SpecSystems == InitSystems /\ [][NextSystems]_vars

\* What a dict of the system holds, by name.
Held(h, d) == [n \in DOMAIN d |-> h.job[d[n]]]
Populated(kind) == call.op = "System.populate" /\ call.other.attr_type = kind

\* C14 (as claimed): populate stores the collection by the system's kind.
\* Populating a ZuulSystem with Pipelines raises nothing and leaves every
\* pipeline of the collection in the pipelines dict under its name;
\* populating a System with Jobs leaves every job in the jobs dict.
C14_PopulateStoresByKind ==
    /\ (system.cls = "ZuulSystem" /\ Populated("Pipeline")) =>
          /\ error = ""
          /\ \A n \in DOMAIN call.other.value :
                n \in DOMAIN pipelines /\ heap.job[pipelines[n]] = call.other.value[n]
    /\ (system.cls = "System" /\ Populated("Job")) =>
          /\ error = ""
          /\ \A n \in DOMAIN call.other.value :
                /\ n \in DOMAIN jobs
                /\ heap.job[jobs[n]].cls = "Job"
                /\ heap.job[jobs[n]].url = call.other.value[n].url

\* C15 (as claimed): a system never holds both kinds of children.  A System
\* has no pipelines and a ZuulSystem has no jobs, whatever was called.
C15_OneKindOfChildren ==
    /\ system.cls = "System" => pipelines = EmptyDict
    /\ system.cls = "ZuulSystem" => jobs = EmptyDict

\* C16: populate with a collection of another element type than the
\* system's top-level model raises NonSupportedModelType and leaves the jobs
\* and the pipelines of the system as they were.
C16_PopulateRejectsOtherType ==
    (call.op = "System.populate" /\ call.other.attr_type # system.top_level_model) =>
        /\ error = "NonSupportedModelType"
        /\ Held(heap, jobs) = Held(pre.heap, pre.jobs)
        /\ Held(heap, pipelines) = Held(pre.heap, pre.pipelines)

\* A System with a job was populated with a collection of two Pipelines.
C16_Witness ==
    /\ system.cls = "System" /\ Populated("Pipeline")
    /\ DOMAIN call.other.value = PipelineNames
    /\ DOMAIN pre.jobs # {}
    /\ error = "NonSupportedModelType"
    /\ DOMAIN jobs = DOMAIN pre.jobs

(***************************************************************************)
(* The validator (cibyl/cli/validator.py).  An environment is a name and a *)
(* list of systems, a system a name, a type and the names of its sources;  *)
(* ci_args maps the names of the arguments the user gave to their values.  *)
(***************************************************************************)
EnvNames == {"staging", "prod"}
SystemNames == {"s1", "s2"}
SystemTypes == {"jenkins", "zuul"}
SourceNames == {"src1", "src2"}

\* `x in list`
InList(x, list) == \E i \in 1..Len(list) : list[i] = x

\* the first name of names that is not in all_envs, "" if there is none
RECURSIVE FirstMissing(_, _, _)
FirstMissing(names, all_envs, i) ==
    IF i > Len(names) THEN ""
    ELSE IF ~InList(names[i], all_envs) THEN names[i]
    ELSE FirstMissing(names, all_envs, i + 1)

\* Mutant: only the first name the user gave is looked up.
check_input_environments_first(cargs, all_envs, argument) ==
    IF argument \in DOMAIN cargs
    THEN IF Len(cargs[argument].value) > 0 /\ ~InList(cargs[argument].value[1], all_envs)
         THEN cargs[argument].value[1]
         ELSE ""
    ELSE ""

\* Validator._check_input_environments: the name it raises with, "" if it
\* returns
check_input_environments(cargs, all_envs, argument) ==
    IF argument \in DOMAIN cargs
    THEN FirstMissing(cargs[argument].value, all_envs, 1)
    ELSE ""

\* Mutant: the environments the user asked for are not looked at.
consistent_environment_any(cargs, env) == TRUE

\* Validator._consistent_environment
consistent_environment(cargs, env) ==
    IF "env_name" \in DOMAIN cargs
    THEN InList(env.name, cargs["env_name"].value)
    ELSE TRUE

\* Mutant: the sources the user asked for are not looked at.
consistent_system_any_source(cargs, sys) ==
    IF "system_type" \in DOMAIN cargs /\ sys.system_type # cargs["system_type"].value
    THEN FALSE
    ELSE IF "systems" \in DOMAIN cargs /\ ~InList(sys.name, cargs["systems"].value)
    THEN FALSE
    ELSE TRUE

\* Validator._consistent_system; the system type the user gave is one str,
\* and among SystemTypes `in` on it is equality
consistent_system(cargs, sys) ==
    IF "system_type" \in DOMAIN cargs /\ sys.system_type # cargs["system_type"].value
    THEN FALSE
    ELSE IF "systems" \in DOMAIN cargs /\ ~InList(sys.name, cargs["systems"].value)
    THEN FALSE
    ELSE IF "sources" \in DOMAIN cargs
            /\ {cargs["sources"].value[i] : i \in 1..Len(cargs["sources"].value)}
                  \cap sys.sources = {}
    THEN FALSE
    ELSE TRUE

\* validate_environments, first loop: all_envs and all_systems
all_envs_of(envs) == [i \in 1..Len(envs) |-> envs[i].name]

RECURSIVE all_systems_of(_, _)
all_systems_of(envs, i) ==
    IF i > Len(envs) THEN <<>>
    ELSE [k \in 1..Len(envs[i].systems) |-> envs[i].systems[k].name]
            \o all_systems_of(envs, i + 1)

NoError == [raised |-> "", name |-> "", available |-> <<>>]

\* Mutant: the systems are looked up before the environments.
check_existence_systems_first(envs, cargs) ==
    LET all_envs == all_envs_of(envs)
        all_systems == all_systems_of(envs, 1)
        bad_env == check_input_environments(cargs, all_envs, "env_name")
        bad_system == check_input_environments(cargs, all_systems, "systems")
    IN IF bad_system # ""
       THEN [raised |-> "InvalidSystem", name |-> bad_system, available |-> all_systems]
       ELSE IF bad_env # ""
       THEN [raised |-> "InvalidEnvironment", name |-> bad_env, available |-> all_envs]
       ELSE NoError

\* Mutant: only the environments are looked up.
check_existence_envs_only(envs, cargs) ==
    LET all_envs == all_envs_of(envs)
        bad_env == check_input_environments(cargs, all_envs, "env_name")
    IN IF bad_env # ""
       THEN [raised |-> "InvalidEnvironment", name |-> bad_env, available |-> all_envs]
       ELSE NoError

\* Mutant: the systems are looked up among those of the environments the
\* user asked for.
check_existence_per_environment(envs, cargs) ==
    LET all_envs == all_envs_of(envs)
        asked == SelectSeq(envs, LAMBDA e : consistent_environment(cargs, e))
        all_systems == all_systems_of(asked, 1)
        bad_env == check_input_environments(cargs, all_envs, "env_name")
        bad_system == check_input_environments(cargs, all_systems, "systems")
    IN IF bad_env # ""
       THEN [raised |-> "InvalidEnvironment", name |-> bad_env, available |-> all_envs]
       ELSE IF bad_system # ""
       THEN [raised |-> "InvalidSystem", name |-> bad_system, available |-> all_systems]
       ELSE NoError

\* validate_environments up to the two _check_input_environments calls: the
\* exception raised, with its arguments
check_existence(envs, cargs) ==
    LET all_envs == all_envs_of(envs)
        all_systems == all_systems_of(envs, 1)
        bad_env == check_input_environments(cargs, all_envs, "env_name")
        bad_system == check_input_environments(cargs, all_systems, "systems")
    IN IF bad_env # ""
       THEN [raised |-> "InvalidEnvironment", name |-> bad_env, available |-> all_envs]
       ELSE IF bad_system # ""
       THEN [raised |-> "InvalidSystem", name |-> bad_system, available |-> all_systems]
       ELSE NoError

\* for system in env.systems: ... env_systems.append(system)
RECURSIVE env_systems_of(_, _, _)
env_systems_of(cargs, systems, k) ==
    IF k > Len(systems) THEN <<>>
    ELSE (IF consistent_system(cargs, systems[k]) THEN <<systems[k]>> ELSE <<>>)
            \o env_systems_of(cargs, systems, k + 1)

\* Mutant: an environment left without systems is kept like the others.
RECURSIVE filter_loop_keep_empty(_, _, _, _, _)
filter_loop_keep_empty(envs, cargs, i, user_envs, user_systems) ==
    IF i > Len(envs)
    THEN [environments |-> envs, user_envs |-> user_envs, user_systems |-> user_systems]
    ELSE IF ~consistent_environment(cargs, envs[i])
    THEN filter_loop_keep_empty(envs, cargs, i + 1, user_envs, user_systems)
    ELSE LET env_systems == env_systems_of(cargs, envs[i].systems, 1)
             envs1 == [envs EXCEPT ![i].systems = env_systems]
         IN filter_loop_keep_empty(envs1, cargs, i + 1, Append(user_envs, envs1[i]),
                                   user_systems \o env_systems)

\* validate_environments, second loop, from environment i on: the
\* environments as it leaves them, user_envs and user_systems
RECURSIVE filter_loop(_, _, _, _, _)
filter_loop(envs, cargs, i, user_envs, user_systems) ==
    IF i > Len(envs)
    THEN [environments |-> envs, user_envs |-> user_envs, user_systems |-> user_systems]
    ELSE IF ~consistent_environment(cargs, envs[i])
    THEN filter_loop(envs, cargs, i + 1, user_envs, user_systems)
    ELSE LET env_systems == env_systems_of(cargs, envs[i].systems, 1)
         IN IF env_systems # <<>>
            THEN LET envs1 == [envs EXCEPT ![i].systems = env_systems]
                 IN filter_loop(envs1, cargs, i + 1, Append(user_envs, envs1[i]),
                                user_systems \o env_systems)
            ELSE filter_loop(envs, cargs, i + 1, user_envs, user_systems)

\* The configurations: no environment, "staging" alone with up to two
\* systems of different names, or "staging" and then "prod" with up to one.
SystemConfigs == [name : SystemNames, system_type : SystemTypes, sources : {{}, {"src1"}}]
SystemLists(longest) ==
    {sl \in UNION {[1..n -> SystemConfigs] : n \in 0..longest} :
        \A i, j \in 1..Len(sl) : i # j => sl[i].name # sl[j].name}
Configurations ==
    {<<>>}
       \cup {<<[name |-> "staging", systems |-> sl]>> : sl \in SystemLists(2)}
       \cup {<<[name |-> "staging", systems |-> sl], [name |-> "prod", systems |-> pl]>> :
                sl \in SystemLists(2), pl \in SystemLists(1)}

\* What the user may give: each argument is absent or has a value.
OptArg(key, values) == {EmptyDict} \cup {key :> [value |-> v] : v \in values}
UserArgs ==
    {a @@ b @@ c @@ d :
        a \in OptArg("env_name", {<<"staging">>, <<"prod">>, <<"staging", "prod">>,
                                  <<"prod", "staging">>}),
        b \in OptArg("systems", {<<"s1">>, <<"s2">>}),
        c \in OptArg("system_type", SystemTypes),
        d \in OptArg("sources", {<<"src1">>, <<"src2">>})}

\* Validator(ci_args).validate_environments(environments) is called
InitValidator ==
    /\ environments \in Configurations
    /\ ci_args \in UserArgs
    /\ validation = [pc |-> "check", raised |-> "", name |-> "", available |-> <<>>,
                     user_envs |-> <<>>, user_systems |-> <<>>]
    /\ pre = [environments |-> environments]
    /\ heap = EmptyHeap /\ jobs = EmptyDict /\ held = NoRef /\ call = NoCall
    /\ system = SystemObj /\ pipelines = EmptyDict /\ error = ""
    /\ NoResolver /\ NoPlugin /\ NoJenkins

\* validate_environments, lines 99-109: the existence checks
CheckInput ==
    /\ validation.pc = "check"
    /\ LET r == check_existence(environments, ci_args)
       IN validation' = [validation EXCEPT
                            !.pc = IF r.raised = "" THEN "filter" ELSE "done",
                            !.raised = r.raised, !.name = r.name,
                            !.available = r.available]
    /\ UNCHANGED <<environments, ci_args, modelVars, systemVars, resolverVars,
                   pluginVars, jenkinsVars>>

\* validate_environments, lines 113-138: filtering, NoValidSystem or return
FilterEnvironments ==
    /\ validation.pc = "filter"
    /\ LET r == filter_loop(environments, ci_args, 1, <<>>, <<>>)
       IN /\ environments' = r.environments
          /\ validation' =
                IF r.user_systems = <<>>
                THEN [validation EXCEPT !.pc = "done", !.raised = "NoValidSystem",
                         !.available = all_systems_of(environments, 1)]
                ELSE [validation EXCEPT !.pc = "done", !.user_envs = r.user_envs,
                         !.user_systems = r.user_systems]
    /\ UNCHANGED <<ci_args, modelVars, systemVars, resolverVars, pluginVars, jenkinsVars>>

NextValidator == CheckInput \/ FilterEnvironments

SpecValidator == InitValidator /\ [][NextValidator]_vars

(***************************************************************************)
(* Properties of the validator (checked under SpecValidator);              *)
(* pre.environments is the configuration validate_environments was given.  *)
(***************************************************************************)
ConfiguredEnvs == {pre.environments[i].name : i \in 1..Len(pre.environments)}
ConfiguredSystems ==
    UNION {{pre.environments[i].systems[k].name : k \in 1..Len(pre.environments[i].systems)} :
           i \in 1..Len(pre.environments)}
Asked(key) ==
    IF key \in DOMAIN ci_args
    THEN {ci_args[key].value[i] : i \in 1..Len(ci_args[key].value)}
    ELSE {}
UnknownEnvs == Asked("env_name") \ ConfiguredEnvs
UnknownSystems == Asked("systems") \ ConfiguredSystems
Checked == validation.pc # "check"
Finished == validation.pc = "done"

\* C17: validate_environments raises InvalidEnvironment whenever env_name
\* has a name that no loaded environment has; the error carries such a name
\* and the names of all configured environments.
C17_UnknownEnvironmentRaises ==
    (Checked /\ UnknownEnvs # {}) =>
        /\ validation.raised = "InvalidEnvironment"
        /\ validation.name \in UnknownEnvs
        /\ Len(validation.available) = Len(pre.environments)
        /\ \A i \in 1..Len(pre.environments) :
              validation.available[i] = pre.environments[i].name

\* Only "staging" is configured and "prod" was asked for: the error names
\* "prod" and lists "staging".
C17_Witness ==
    /\ Checked
    /\ ConfiguredEnvs = {"staging"}
    /\ "env_name" \in DOMAIN ci_args /\ ci_args["env_name"].value = <<"prod">>
    /\ validation.raised = "InvalidEnvironment"
    /\ validation.name = "prod"
    /\ validation.available = <<"staging">>

\* C18: validate_environments raises InvalidSystem whenever every
\* environment asked for exists and systems has a name that no system of
\* any loaded environment has.
C18_UnknownSystemRaises ==
    (Checked /\ UnknownEnvs = {} /\ UnknownSystems # {}) =>
        /\ validation.raised = "InvalidSystem"
        /\ validation.name \in UnknownSystems

\* "staging" with the one system s1 is configured and asked for, and so is
\* the system s2.
C18_Witness ==
    /\ Checked
    /\ ConfiguredSystems = {"s1"}
    /\ Asked("env_name") = {"staging"}
    /\ Asked("systems") = {"s2"}
    /\ validation.raised = "InvalidSystem" /\ validation.name = "s2"

\* C19: existence is checked before filtering.  An environment name that
\* does not exist makes validate_environments raise InvalidEnvironment
\* whatever else was asked for, and when InvalidEnvironment or InvalidSystem
\* is raised every environment has the systems it was configured with.
C19_ExistenceBeforeFiltering ==
    /\ (Checked /\ UnknownEnvs # {}) => validation.raised = "InvalidEnvironment"
    /\ validation.raised \in {"InvalidEnvironment", "InvalidSystem"} =>
          environments = pre.environments

\* An unknown environment, an unknown system, a type no system has and a
\* source no system has were asked for at once.
C19_Witness ==
    /\ Checked
    /\ UnknownEnvs # {} /\ UnknownSystems # {}
    /\ ConfiguredSystems # {}
    /\ "system_type" \in DOMAIN ci_args
    /\ \A i \in 1..Len(pre.environments) : \A k \in 1..Len(pre.environments[i].systems) :
          /\ pre.environments[i].systems[k].system_type # ci_args["system_type"].value
          /\ pre.environments[i].systems[k].sources \cap Asked("sources") = {}
    /\ "sources" \in DOMAIN ci_args
    /\ validation.raised = "InvalidEnvironment"
    /\ environments = pre.environments

\* C20: validate_environments raises NoValidSystem exactly when no
\* existence error was raised and no system of any environment passes the
\* user's filters; a system none of whose sources was asked for is dropped;
\* the list of systems returned is never empty.
C20_Survives(i, k) ==
    LET e == pre.environments[i]
        s == e.systems[k]
    IN /\ "env_name" \in DOMAIN ci_args => e.name \in Asked("env_name")
       /\ "system_type" \in DOMAIN ci_args => s.system_type = ci_args["system_type"].value
       /\ "systems" \in DOMAIN ci_args => s.name \in Asked("systems")
       /\ "sources" \in DOMAIN ci_args => Asked("sources") \cap s.sources # {}

C20_NoneSurvives ==
    \A i \in 1..Len(pre.environments) :
       \A k \in 1..Len(pre.environments[i].systems) : ~C20_Survives(i, k)

C20_NoValidSystemExactly ==
    Finished =>
        /\ validation.raised = "NoValidSystem"
              <=> (UnknownEnvs = {} /\ UnknownSystems = {} /\ C20_NoneSurvives)
        /\ validation.raised = "" =>
              /\ validation.user_systems # <<>>
              /\ \A n \in 1..Len(validation.user_systems) :
                    "sources" \in DOMAIN ci_args =>
                       Asked("sources") \cap validation.user_systems[n].sources # {}

\* The one system configured has the source src1, the user asked for src2
\* and for nothing else.
C20_Witness ==
    /\ Finished
    /\ Len(pre.environments) = 1 /\ Len(pre.environments[1].systems) = 1
    /\ pre.environments[1].systems[1].sources = {"src1"}
    /\ DOMAIN ci_args = {"sources"} /\ Asked("sources") = {"src2"}
    /\ validation.raised = "NoValidSystem"

Returned_ == Finished /\ validation.raised = ""

\* The systems of a list, from the k-th on, that pass the user's filters
\* with their environment i, in the order of the list.
RECURSIVE SurvivorsOf(_, _)
SurvivorsOf(i, k) ==
    IF k > Len(pre.environments[i].systems) THEN <<>>
    ELSE (IF C20_Survives(i, k) THEN <<pre.environments[i].systems[k]>> ELSE <<>>)
            \o SurvivorsOf(i, k + 1)

RECURSIVE AllSurvivors(_)
AllSurvivors(i) ==
    IF i > Len(pre.environments) THEN <<>>
    ELSE SurvivorsOf(i, 1) \o AllSurvivors(i + 1)

\* C21: the systems returned by validate_environments are, in configuration
\* order, exactly the systems that pass the four filters (environment name,
\* system type, system name, sources) where the user gave them.
C21_ReturnsExactlyTheConsistent ==
    Returned_ => validation.user_systems = AllSurvivors(1)

\* Two environments are configured, one of which was asked for; of its two
\* systems one has the type asked for and was returned.
C21_Witness ==
    /\ Returned_
    /\ Len(pre.environments) = 2 /\ Len(pre.environments[1].systems) = 2
    /\ Len(pre.environments[2].systems) = 1
    /\ Asked("env_name") = {"staging"}
    /\ "system_type" \in DOMAIN ci_args
    /\ validation.user_systems = <<pre.environments[1].systems[2]>>

\* C22: an environment that loses all its systems is not returned.  Every
\* environment returned has the non-empty list of its systems that passed,
\* the systems returned are those lists one after the other, and an
\* environment that is not returned has the systems it was configured with.
C22_IsReturned(i) ==
    \E n \in 1..Len(validation.user_envs) :
        validation.user_envs[n].name = pre.environments[i].name

RECURSIVE C22_Concat(_, _)
C22_Concat(envs, n) ==
    IF n > Len(envs) THEN <<>> ELSE envs[n].systems \o C22_Concat(envs, n + 1)

C22_EmptiedIsDropped ==
    Finished =>
        /\ \A i \in 1..Len(pre.environments) :
              IF C22_IsReturned(i)
              THEN /\ environments[i].systems # <<>>
                   /\ environments[i].systems = SurvivorsOf(i, 1)
                   /\ \E n \in 1..Len(validation.user_envs) :
                         validation.user_envs[n] = environments[i]
              ELSE environments[i] = pre.environments[i]
        /\ \A n \in 1..Len(validation.user_envs) :
              \E i \in 1..Len(pre.environments) :
                  validation.user_envs[n].name = pre.environments[i].name
        /\ validation.user_systems = C22_Concat(validation.user_envs, 1)

\* "staging" lost both its systems to the filters and "prod" kept its one:
\* "prod" alone is returned and "staging" has its two systems still.
C22_Witness ==
    /\ Returned_
    /\ Len(pre.environments) = 2 /\ Len(pre.environments[1].systems) = 2
    /\ "env_name" \notin DOMAIN ci_args
    /\ Len(validation.user_envs) = 1
    /\ validation.user_envs[1].name = "prod"
    /\ environments[1] = pre.environments[1]

\* C30: system names are looked up among the systems of all environments.
\* When every system asked for exists in some environment no InvalidSystem
\* is raised, also if none of them is in an environment asked for; they are
\* then filtered out and NoValidSystem is raised.
C30_InAskedEnv(name) ==
    \E i \in 1..Len(pre.environments) :
        /\ pre.environments[i].name \in Asked("env_name")
        /\ \E k \in 1..Len(pre.environments[i].systems) :
              pre.environments[i].systems[k].name = name

C30_SystemsCheckedGlobally ==
    (Finished /\ UnknownEnvs = {} /\ UnknownSystems = {}) =>
        /\ validation.raised # "InvalidSystem"
        /\ ("env_name" \in DOMAIN ci_args /\ "systems" \in DOMAIN ci_args
               /\ \A name \in Asked("systems") : ~C30_InAskedEnv(name))
              => validation.raised = "NoValidSystem"

\* "staging" has s1 and "prod" has s2; the user asked for "staging" and s2.
C30_Witness ==
    /\ Finished
    /\ Len(pre.environments) = 2
    /\ Len(pre.environments[1].systems) = 1 /\ pre.environments[1].systems[1].name = "s1"
    /\ Len(pre.environments[2].systems) = 1 /\ pre.environments[2].systems[1].name = "s2"
    /\ Asked("env_name") = {"staging"} /\ Asked("systems") = {"s2"}
    /\ validation.raised = "NoValidSystem"

(***************************************************************************)
(* The system's tree as a whole (checked under Spec)                       *)
(***************************************************************************)
\* The paths of the system's tree: (job), (job, build), (job, build, test).
C25_Paths(h, sysjobs) ==
    {<<n>> : n \in DOMAIN sysjobs}
      \cup {p \in JobNames \X BuildIds :
                  /\ p[1] \in DOMAIN sysjobs
                  /\ p[2] \in DOMAIN h.job[sysjobs[p[1]]].builds}
      \cup {p \in JobNames \X BuildIds \X TestNames :
                  /\ p[1] \in DOMAIN sysjobs
                  /\ p[2] \in DOMAIN h.job[sysjobs[p[1]]].builds
                  /\ p[3] \in DOMAIN h.build[h.job[sysjobs[p[1]]].builds[p[2]]].tests}

\* The scalars of the system's tree that are set, each as its path and name.
C25_Scalars(h, sysjobs) ==
    {<<n, "url">> : n \in {m \in DOMAIN sysjobs : h.job[sysjobs[m]].url # None}}
      \cup {<<p[1], p[2], "status">> :
              p \in {q \in JobNames \X BuildIds :
                       /\ q[1] \in DOMAIN sysjobs
                       /\ q[2] \in DOMAIN h.job[sysjobs[q[1]]].builds
                       /\ h.build[h.job[sysjobs[q[1]]].builds[q[2]]].status # None}}

\* C25: nothing is destroyed mid-run.  Over any call on the system's tree
\* the set of paths of jobs, builds and tests only grows and a scalar that
\* is set stays set.
C25_NothingDestroyed ==
    [][OwnsSystem =>
          /\ C25_Paths(heap, jobs) \subseteq C25_Paths(heap', jobs')
          /\ C25_Scalars(heap, jobs) \subseteq C25_Scalars(heap', jobs')]_vars

(***************************************************************************)
(* Objects handed in by a caller that keeps them: specification            *)
(* SpecHandedIn.  A job of the system's tree, and two builds of one id     *)
(* that a caller made and keeps: job.add_build(first), and then            *)
(* job.add_build(second) or, on the build the tree has under that id,      *)
(* build.merge(second).  held is the first build, pre the heap when it was *)
(* handed in.                                                              *)
(***************************************************************************)
HandedInJobRef == <<"sys", CHOOSE n \in JobNames : TRUE>>
FirstBuildRef(id) == <<"first", "-", id>>
SecondBuildRef(id) == <<"second", "-", id>>

HandedInHeap(ja, first, second) ==
    AllocBuild(AllocBuild(AllocJob(EmptyHeap, HandedInJobRef, ja),
                          FirstBuildRef(first.build_id), first),
               SecondBuildRef(second.build_id), second)

InitHandedIn ==
    /\ system = SystemObj /\ pipelines = EmptyDict /\ error = ""
    /\ \E ja \in JobArgs, first \in SysBuildArgs, second \in SysBuildArgs :
          /\ first.build_id = second.build_id
          /\ heap = HandedInHeap(ja, first, second)
          /\ held = FirstBuildRef(first.build_id)
    /\ jobs = (HandedInJobRef[2] :> HandedInJobRef)
    /\ call = NoCall
    /\ pre = [heap |-> heap, jobs |-> jobs]
    /\ NoResolver /\ NoValidator /\ NoPlugin /\ NoJenkins

\* job.add_build(first)
AddBuildFirst ==
    /\ call.times = 0
    /\ heap' = Job_add_build(heap, HandedInJobRef, held)
    /\ call' = [op |-> "Job.add_build", self |-> HandedInJobRef, other |-> held, times |-> 1]
    /\ UNCHANGED <<jobs, held, pre, resolverVars, systemVars, validatorVars,
                   pluginVars, jenkinsVars>>

\* job.add_build(second)
AddBuildLater ==
    /\ call.times = 1
    /\ LET second == SecondBuildRef(held[3])
       IN /\ heap' = Job_add_build(heap, HandedInJobRef, second)
          /\ call' = [op |-> "Job.add_build", self |-> HandedInJobRef,
                      other |-> second, times |-> 2]
    /\ UNCHANGED <<jobs, held, pre, resolverVars, systemVars, validatorVars,
                   pluginVars, jenkinsVars>>

\* job.builds[id].merge(second)
MergeBuildLater ==
    /\ call.times = 1
    /\ LET second == SecondBuildRef(held[3])
           self == heap.job[HandedInJobRef].builds[held[3]]
       IN /\ heap' = Build_merge(heap, self, second)
          /\ call' = [op |-> "Build.merge", self |-> self, other |-> second, times |-> 2]
    /\ UNCHANGED <<jobs, held, pre, resolverVars, systemVars, validatorVars,
                   pluginVars, jenkinsVars>>

NextHandedIn == AddBuildFirst \/ AddBuildLater \/ MergeBuildLater

SpecHandedIn == InitHandedIn /\ [][NextHandedIn]_vars

\* A build with its tests, as the caller that holds it sees it.
C29_BuildOf(h, b) ==
    [build_id |-> h.build[b].build_id, status |-> h.build[b].status,
     duration |-> h.build[b].duration,
     tests |-> [t \in DOMAIN h.build[b].tests |-> h.test[h.build[b].tests[t]]]]

\* C29: what a caller handed in is not modified by later calls.  After
\* job.add_build(first) put first in the job, whose builds did not have its
\* id, a later add_build or merge with another build of that id leaves
\* first, its status and its tests, as it was when it was handed in; and the
\* later call leaves the build it was given as it was.
C29_HandedInNotModified ==
    call.times = 2 =>
        /\ held[3] \notin DOMAIN pre.heap.job[HandedInJobRef].builds
              => C29_BuildOf(heap, held) = C29_BuildOf(pre.heap, held)
        /\ C29_BuildOf(heap, call.other) = C29_BuildOf(pre.heap, call.other)

(***************************************************************************)
(* Jobs extended by the openstack plugin: specification SpecPlugin.        *)
(* Plugin._extend gives Job the attribute deployment and the method        *)
(* add_deployment; Job.__init__ passes no deployment, so that a new job    *)
(* has none.  A job of the tree and an incoming job of the same name get   *)
(* a deployment or not, and then job.merge(incoming).                      *)
(***************************************************************************)
Deployments == {"d1", "d2"}
ExistingJobRef == <<"sys", CHOOSE n \in JobNames : TRUE>>
IncomingJobRef == <<"in", CHOOSE n \in JobNames : TRUE>>

\* add_deployment(self, deployment)
add_deployment(dep, self, d) == [dep EXCEPT ![self] = d]

\* Job.merge on extended jobs: the heap and the deployment attributes after
\* the call.  Its statements are on url and builds.
Job_merge_extended(h, dep, self, other) ==
    [heap |-> Job_merge(h, self, other), deployment |-> dep]

InitPlugin ==
    /\ system = SystemObj /\ pipelines = EmptyDict /\ error = ""
    /\ heap \in {AllocJob(AllocJob(EmptyHeap, ExistingJobRef, e), IncomingJobRef, i) :
                    e \in AssocFirstArgs, i \in JobArgs}
    /\ jobs = (ExistingJobRef[2] :> ExistingJobRef)
    /\ held = NoRef
    /\ call = NoCall
    /\ pre = NoPre
    /\ deployment = (ExistingJobRef :> None) @@ (IncomingJobRef :> None)
    /\ NoResolver /\ NoValidator /\ NoJenkins

\* job.add_deployment(Deployment(...)) on a job that has none yet
AddDeployment ==
    /\ call.op = "idle"
    /\ \E j \in DOMAIN deployment, d \in Deployments :
          /\ deployment[j] = None
          /\ deployment' = add_deployment(deployment, j, d)
    /\ UNCHANGED <<modelVars, resolverVars, systemVars, validatorVars, jenkinsVars>>

\* job.merge(incoming)
MergeExtended ==
    /\ call.op = "idle"
    /\ LET r == Job_merge_extended(heap, deployment, ExistingJobRef, IncomingJobRef)
       IN heap' = r.heap /\ deployment' = r.deployment
    /\ call' = [op |-> "Job.merge", self |-> ExistingJobRef, other |-> IncomingJobRef,
                times |-> 1]
    /\ pre' = [heap |-> heap, jobs |-> jobs, deployment |-> deployment]
    /\ UNCHANGED <<jobs, held, resolverVars, systemVars, validatorVars, jenkinsVars>>

NextPlugin == AddDeployment \/ MergeExtended

SpecPlugin == InitPlugin /\ [][NextPlugin]_vars

\* C24: the merge propagates the deployment.  After job.merge(incoming) a
\* job that had no deployment has the deployment of the incoming job, and
\* a job that had one has kept it.
C24_DeploymentPropagated ==
    call.op = "Job.merge" =>
        /\ pre.deployment[call.self] = None
              => deployment[call.self] = pre.deployment[call.other]
        /\ pre.deployment[call.self] # None
              => deployment[call.self] = pre.deployment[call.self]

(***************************************************************************)
(* The Jenkins source: specification SpecJenkins.  A call wrapped by       *)
(* safe_request_generic, Jenkins.send_request, get_builds and              *)
(* add_job_info_from_artifacts against a server whose answers are chosen   *)
(* when the call is made.                                                  *)
(***************************************************************************)
\* The exceptions a call may raise, each with the classes it is an instance
\* of (requests.exceptions, json and the builtins).
ExceptionBases ==
    ("SSLError" :> {"SSLError", "ConnectionError", "RequestException", "Exception"})
      @@ ("ConnectionError" :> {"ConnectionError", "RequestException", "Exception"})
      @@ ("Timeout" :> {"Timeout", "RequestException", "Exception"})
      @@ ("HTTPError" :> {"HTTPError", "RequestException", "Exception"})
      @@ ("JSONDecodeError" :> {"JSONDecodeError", "ValueError", "Exception"})
      @@ ("Exception" :> {"Exception"})
      @@ ("KeyboardInterrupt" :> {"KeyboardInterrupt"})
IsInstance(ex, cls) == cls \in ExceptionBases[ex]

\* ex.response of an exception made without a response
NoResponse == 0
HttpErrorStatuses == {404, 500}
CustomErrors == {"JenkinsError", "ElasticSearchError"}

\* How a call ends: it returns a value, or raises an exception (with the
\* status of its response, if it has one, and its message).
Returns(v) == [raised |-> "", value |-> v, response |-> NoResponse, message |-> ""]
Raises(ex, response, message) ==
    [raised |-> ex, value |-> "", response |-> response, message |-> message]

\* safe_request_generic's request_handler, on how the call to request ended
request_handler(request, custom_error) ==
    IF request.raised = "" THEN request
    ELSE IF IsInstance(request.raised, "SSLError")
    THEN Raises(custom_error, NoResponse,
                "Please set certificates in order to connect to the system")
    ELSE IF IsInstance(request.raised, "ConnectionError")
    THEN Raises(custom_error, NoResponse, "Could not connect to target host")
    ELSE IF IsInstance(request.raised, "HTTPError")
    THEN IF request.response = NoResponse
         THEN Raises("AttributeError", NoResponse,
                     "'NoneType' object has no attribute 'status_code'")
         ELSE Raises(custom_error, NoResponse, "Got response from target host.")
    ELSE IF IsInstance(request.raised, "Exception")
    THEN Raises(custom_error, NoResponse, "Failure on request to target host.")
    ELSE request

\* How any call handed to the decorator may end.
CallValues == {"some_value"}
CallOutcomes ==
    {Returns(v) : v \in CallValues}
      \cup {Raises(ex, NoResponse, "") : ex \in DOMAIN ExceptionBases}
      \cup {Raises("HTTPError", status, "") : status \in HttpErrorStatuses}

\* What the server does with a request: the connection fails (fault), or it
\* answers with a status and a text, which is a JSON document or is not.
NoText == [json |-> FALSE, doc |-> <<>>, lines |-> <<>>]
JsonText(doc) == [json |-> TRUE, doc |-> doc, lines |-> <<>>]
PlainText(lines) == [json |-> FALSE, doc |-> <<>>, lines |-> lines]
Faults == {"SSLError", "ConnectionError", "Timeout"}
Answers(texts) ==
    {[fault |-> f, status |-> 0, text |-> NoText] : f \in Faults}
      \cup {[fault |-> "", status |-> st, text |-> NoText] : st \in HttpErrorStatuses}
      \cup {[fault |-> "", status |-> 200, text |-> t] : t \in texts}
Failed(answer, raw_response) ==
    answer.fault # "" \/ answer.status >= 400 \/ (~raw_response /\ ~answer.text.json)

\* Jenkins.send_request without the decorator: requests.get,
\* response.raise_for_status, json.loads
send_request_body(answer, raw_response) ==
    IF answer.fault # "" THEN Raises(answer.fault, NoResponse, "")
    ELSE IF answer.status >= 400 THEN Raises("HTTPError", answer.status, "")
    ELSE IF raw_response THEN Returns(answer.text)
    ELSE IF answer.text.json THEN Returns(answer.text.doc)
    ELSE Raises("JSONDecodeError", NoResponse, "")

\* Jenkins.send_request: @safe_request
send_request(answer, raw_response) ==
    request_handler(send_request_body(answer, raw_response), "JenkinsError")

\* What the server has: jobs and folders, and the builds of a job.
JenkinsJobNames == {"test_17.3_job_2comp_1cont", "test_job"}
JobClasses == {"org.job.WorkflowJob", "com.cloudbees.Folder"}
BuildDoc(number, result) == [number |-> number, result |-> result]
JobDoc(class, name, lastBuild) ==
    [class |-> class, name |-> name, url |-> "u1", lastBuild |-> lastBuild]
LastBuilds == {<<>>, <<BuildDoc(1, "success")>>}
FolderDoc == JobDoc("com.cloudbees.Folder", "folder", <<>>)
JobDocLists ==
    {<<>>}
      \cup {<<JobDoc("org.job.WorkflowJob", "test_job", lb)>> : lb \in LastBuilds}
      \cup {<<FolderDoc, JobDoc("org.job.WorkflowJob", "test_job", lb)>> : lb \in LastBuilds}
      \cup {<<JobDoc("org.job.WorkflowJob", "test_job", la),
              JobDoc("org.job.WorkflowJob", "test_17.3_job_2comp_1cont", lb)>> :
                la \in LastBuilds, lb \in LastBuilds}
BuildDocLists ==
    {<<>>, <<BuildDoc(1, "success")>>, <<BuildDoc(2, "FAILURE"), BuildDoc(1, None)>>}
JobsAnswers == Answers({JsonText(d) : d \in JobDocLists} \cup {PlainText(<<"<html>">>)})
BuildsAnswers == Answers({JsonText(d) : d \in BuildDocLists} \cup {PlainText(<<"<html>">>)})
BuildsServers == [jobs : JobsAnswers, builds : [JenkinsJobNames -> BuildsAnswers]]

\* is_job: neither a view nor a folder
is_job(job) == job.class = "org.job.WorkflowJob"

\* filter_jobs without arguments of the user: the is_job check
filter_jobs(jobs_found) == SelectSeq(jobs_found, is_job)

\* str(build["number"]) on the numbers of the model
Str(number) == CASE number = 1 -> "1" [] number = 2 -> "2"

\* filter_builds without arguments of the user: the numbers become strings
filter_builds(builds_found) ==
    [i \in 1..Len(builds_found) |->
        BuildDoc(Str(builds_found[i].number), builds_found[i].result)]

\* What get_jobs and get_builds hand back: the exception raised, or the
\* Job objects on a heap, by name, with the order of the names.
NothingReturned(raised) ==
    [raised |-> raised, heap |-> EmptyHeap, jobs |-> EmptyDict, order |-> <<>>]
FetchedJobRef(name) == <<"in", name>>
FetchedBuildRef(name, id) == <<"in", name, id>>

\* job_objects[name] = Job(name=name, url=job.get('url')) for the jobs from i on
RECURSIVE job_objects_loop(_, _, _)
job_objects_loop(jobs_filtered, i, found) ==
    IF i > Len(jobs_filtered) THEN found
    ELSE LET job == jobs_filtered[i]
             ref == FetchedJobRef(job.name)
             h1 == AllocJob(found.heap, ref,
                            [name |-> job.name, url |-> job.url, builds |-> EmptyDict])
         IN job_objects_loop(jobs_filtered, i + 1,
                [found EXCEPT !.heap = h1, !.jobs = DictSet(@, job.name, ref),
                              !.order = IF InList(job.name, @) THEN @
                                        ELSE Append(@, job.name)])

\* Jenkins.get_jobs
get_jobs(server) ==
    LET response == send_request(server.jobs, FALSE)
    IN IF response.raised # "" THEN NothingReturned(response.raised)
       ELSE job_objects_loop(filter_jobs(response.value), 1, NothingReturned(""))

\* for build in builds_to_add: job.add_build(Build(number, result, duration))
RECURSIVE add_builds_loop(_, _, _, _)
add_builds_loop(h, job_name, builds_to_add, i) ==
    IF i > Len(builds_to_add) THEN h
    ELSE LET build == builds_to_add[i]
             ref == FetchedBuildRef(job_name, build.number)
             h1 == AllocBuild(h, ref, [build_id |-> build.number, status |-> build.result,
                                       duration |-> NoDuration, tests |-> EmptyDict])
         IN add_builds_loop(Job_add_build(h1, FetchedJobRef(job_name), ref),
                            job_name, builds_to_add, i + 1)

\* Mutant: the builds of a job whose request fails are left out and the
\* jobs are returned.
RECURSIVE get_builds_loop_partial(_, _, _)
get_builds_loop_partial(server, jobs_found, i) ==
    IF i > Len(jobs_found.order) THEN jobs_found
    ELSE LET job_name == jobs_found.order[i]
             builds_info == send_request(server.builds[job_name], FALSE)
         IN IF builds_info.raised # ""
            THEN get_builds_loop_partial(server, jobs_found, i + 1)
            ELSE get_builds_loop_partial(server,
                    [jobs_found EXCEPT !.heap =
                        add_builds_loop(@, job_name, filter_builds(builds_info.value), 1)],
                    i + 1)

\* get_builds: for job_name, job in jobs_found.items(), from the i-th on
RECURSIVE get_builds_loop(_, _, _)
get_builds_loop(server, jobs_found, i) ==
    IF i > Len(jobs_found.order) THEN jobs_found
    ELSE LET job_name == jobs_found.order[i]
             builds_info == send_request(server.builds[job_name], FALSE)
         IN IF builds_info.raised # ""
            THEN NothingReturned(builds_info.raised)
            ELSE get_builds_loop(server,
                    [jobs_found EXCEPT !.heap =
                        add_builds_loop(@, job_name, filter_builds(builds_info.value), 1)],
                    i + 1)

\* get_last_build: the jobs from i on, each with its last build if it has one
RECURSIVE last_build_loop(_, _, _)
last_build_loop(jobs_filtered, i, found) ==
    IF i > Len(jobs_filtered) THEN found
    ELSE LET job == jobs_filtered[i]
             ref == FetchedJobRef(job.name)
             h1 == AllocJob(found.heap, ref,
                            [name |-> job.name, url |-> job.url, builds |-> EmptyDict])
             h2 == add_builds_loop(h1, job.name, filter_builds(job.lastBuild), 1)
         IN last_build_loop(jobs_filtered, i + 1,
                [found EXCEPT !.heap = h2, !.jobs = DictSet(@, job.name, ref),
                              !.order = IF InList(job.name, @) THEN @
                                        ELSE Append(@, job.name)])

\* Jenkins.get_last_build
get_last_build(server) ==
    LET response == send_request(server.jobs, FALSE)
    IN IF response.raised # "" THEN NothingReturned(response.raised)
       ELSE last_build_loop(filter_jobs(response.value), 1, NothingReturned(""))

\* Jenkins.get_builds
get_builds(server, last_build) ==
    IF last_build THEN get_last_build(server)
    ELSE LET jobs_found == get_jobs(server)
         IN IF jobs_found.raised # "" THEN jobs_found
            ELSE get_builds_loop(server, jobs_found, 1)

\* The artifacts of a job's last build: lines with a topology (a line that
\* has "TOPOLOGY="), with a release (a line that has "PRODUCT_VERSION") or
\* with something else.
possible_artifacts == <<".envrc", "artifacts/jp.env">>
Line(key, property) == [key |-> key, property |-> property]
ArtifactLines ==
    {<<>>,
     <<Line("other", "bla")>>,
     <<Line("other", "bla"), Line("TOPOLOGY=", "compute:2,controller:3")>>,
     <<Line("PRODUCT_VERSION", "16")>>,
     <<Line("other", "bla"), Line("TOPOLOGY=", "compute:2,controller:3"),
       Line("PRODUCT_VERSION", "16")>>}
ArtifactsAnswers == Answers({PlainText(l) : l \in ArtifactLines})
ArtifactsServers == [{possible_artifacts[i] : i \in 1..Len(possible_artifacts)} -> ArtifactsAnswers]

\* What the job's name tells: translate_topology_string on the match of
\* TOPOLOGY_PATTERN, and the match of RELEASE_PATTERN ("" without a match).
NameInfo ==
    ("test_17.3_job_2comp_1cont" :>
         [topology |-> "compute:2,controller:1", release_version |-> "17.3"])
      @@ ("test_job" :> [topology |-> "", release_version |-> ""])

\* Jenkins.add_job_info_from_name
add_job_info_from_name(job) ==
    DictSet(DictSet(job, "topology", NameInfo[job["name"]].topology),
            "release_version", NameInfo[job["name"]].release_version)

\* Mutant: every candidate is requested and the last one found is taken.
RECURSIVE artifacts_loop_no_break(_, _, _, _)
artifacts_loop_no_break(server, job_name, i, sofar) ==
    IF i > Len(possible_artifacts) THEN sofar
    ELSE LET artifact_path == possible_artifacts[i]
             response == send_request(server[artifact_path], TRUE)
             requested == [sofar EXCEPT !.requests = Append(@, artifact_path)]
         IN IF response.raised = ""
            THEN artifacts_loop_no_break(server, job_name, i + 1,
                    [requested EXCEPT !.found = TRUE, !.artifact = response.value])
            ELSE IF response.raised = "JenkinsError"
            THEN artifacts_loop_no_break(server, job_name, i + 1, requested)
            ELSE [requested EXCEPT !.raised = response.raised]

\* add_job_info_from_artifacts: for artifact_path in possible_artifacts, from
\* the i-th on; found is `artifact is not None`, requests the items asked for
RECURSIVE artifacts_loop(_, _, _, _)
artifacts_loop(server, job_name, i, sofar) ==
    IF i > Len(possible_artifacts) THEN sofar
    ELSE LET artifact_path == possible_artifacts[i]
             response == send_request(server[artifact_path], TRUE)
             requested == [sofar EXCEPT !.requests = Append(@, artifact_path)]
         IN IF response.raised = ""
            THEN [requested EXCEPT !.found = TRUE, !.artifact = response.value]
            ELSE IF response.raised = "JenkinsError"
            THEN artifacts_loop(server, job_name, i + 1, requested)
            ELSE [requested EXCEPT !.raised = response.raised]

\* for line in artifact.split("\n"), from the i-th line on
RECURSIVE artifact_lines_loop(_, _, _)
artifact_lines_loop(job, lines, i) ==
    IF i > Len(lines) THEN job
    ELSE IF lines[i].key = "TOPOLOGY="
    THEN artifact_lines_loop(DictSet(job, "topology", lines[i].property), lines, i + 1)
    ELSE IF lines[i].key = "PRODUCT_VERSION"
    THEN artifact_lines_loop(DictSet(job, "release_version", lines[i].property), lines, i + 1)
    ELSE artifact_lines_loop(job, lines, i + 1)

\* Jenkins.add_job_info_from_artifacts: the job dict as the call leaves it,
\* the items requested, the calls of add_job_info_from_name and the
\* exception raised
add_job_info_from_artifacts(server, job) ==
    LET got == artifacts_loop(server, job["name"], 1,
                   [found |-> FALSE, artifact |-> NoText, requests |-> <<>>, raised |-> ""])
        done(j, n) == [job |-> j, requests |-> got.requests, from_name |-> n,
                       raised |-> got.raised]
    IN IF got.raised # "" THEN done(job, 0)
       ELSE IF ~got.found THEN done(add_job_info_from_name(job), 1)
       ELSE LET job1 == artifact_lines_loop(job, got.artifact.lines, 1)
            IN IF "topology" \notin DOMAIN job1 \/ "release_version" \notin DOMAIN job1
               THEN done(add_job_info_from_name(job1), 1)
               ELSE done(job1, 0)

InitJenkins ==
    /\ system = SystemObj /\ pipelines = EmptyDict /\ error = ""
    /\ heap = EmptyHeap /\ jobs = EmptyDict /\ held = NoRef
    /\ call = NoCall /\ pre = NoPre
    /\ jenkins = NotRequested
    /\ NoResolver /\ NoValidator /\ NoPlugin

\* request_test(), a call decorated with safe_request_generic
SafeRequest ==
    /\ jenkins.op = "none"
    /\ \E request \in CallOutcomes, custom_error \in CustomErrors :
          jenkins' = [op |-> "request_handler", custom_error |-> custom_error,
                      request |-> request,
                      result |-> request_handler(request, custom_error)]
    /\ UNCHANGED <<modelVars, resolverVars, systemVars, validatorVars, pluginVars>>

\* jenkins.get_builds(**kwargs)
GetBuilds ==
    /\ jenkins.op = "none"
    /\ \E server \in BuildsServers, last_build \in BOOLEAN :
          jenkins' = [op |-> "get_builds", server |-> server, last_build |-> last_build,
                      result |-> get_builds(server, last_build)]
    /\ UNCHANGED <<modelVars, resolverVars, systemVars, validatorVars, pluginVars>>

\* jenkins.add_job_info_from_artifacts(job)
AddJobInfoFromArtifacts ==
    /\ jenkins.op = "none"
    /\ \E server \in ArtifactsServers, job_name \in JenkinsJobNames :
          jenkins' = [op |-> "add_job_info_from_artifacts", server |-> server,
                      job |-> ("name" :> job_name),
                      result |-> add_job_info_from_artifacts(server, "name" :> job_name)]
    /\ UNCHANGED <<modelVars, resolverVars, systemVars, validatorVars, pluginVars>>

NextJenkins == SafeRequest \/ GetBuilds \/ AddJobInfoFromArtifacts

SpecJenkins == InitJenkins /\ [][NextJenkins]_vars

\* C23: a call wrapped by safe_request_generic returns what the call
\* returns, and raises the custom error whenever the call raises; no other
\* exception comes out of it.
C23_OnlyCustomErrorEscapes ==
    jenkins.op = "request_handler" =>
        /\ jenkins.request.raised = "" => jenkins.result = jenkins.request
        /\ jenkins.request.raised # "" => jenkins.result.raised = jenkins.custom_error

\* The jobs the server has, the builds it has for the job of a document, and
\* the Job that get_builds is to hand back for it.
C27_JobDocs == filter_jobs(jenkins.server.jobs.text.doc)
C27_BuildDocs(job) ==
    IF jenkins.last_build THEN job.lastBuild ELSE jenkins.server.builds[job.name].text.doc
C27_JobOf(job) ==
    LET docs == C27_BuildDocs(job)
    IN [name |-> job.name, url |-> job.url,
        builds |-> [id \in {Str(docs[i].number) : i \in 1..Len(docs)} |->
                      LET doc == docs[CHOOSE i \in 1..Len(docs) : Str(docs[i].number) = id]
                      IN [build_id |-> id,
                          status |-> IF doc.result = None THEN None ELSE Upper(doc.result),
                          duration |-> NoDuration, tests |-> EmptyDict]]]
C27_Failed ==
    \/ Failed(jenkins.server.jobs, FALSE)
    \/ /\ ~jenkins.last_build
       /\ \E i \in 1..Len(C27_JobDocs) :
             Failed(jenkins.server.builds[C27_JobDocs[i].name], FALSE)

C28_FirstFound ==
    IF \A i \in 1..Len(possible_artifacts) :
           Failed(jenkins.server[possible_artifacts[i]], TRUE)
    THEN 0
    ELSE CHOOSE i \in 1..Len(possible_artifacts) :
           /\ ~Failed(jenkins.server[possible_artifacts[i]], TRUE)
           /\ \A k \in 1..(i - 1) : Failed(jenkins.server[possible_artifacts[k]], TRUE)
C28_Yields(key) ==
    /\ C28_FirstFound # 0
    /\ LET lines == jenkins.server[possible_artifacts[C28_FirstFound]].text.lines
       IN \E i \in 1..Len(lines) : lines[i].key = key

\* C28: add_job_info_from_artifacts requests .envrc and then
\* artifacts/jp.env and stops at the first request that succeeds; it calls
\* add_job_info_from_name when every request fails or when the artifact
\* found does not give both the topology and the release; no JenkinsError
\* comes out of it, and the job has 'topology' and 'release_version' when
\* it returns.
C28_ArtifactsThenName ==
    jenkins.op = "add_job_info_from_artifacts" =>
        /\ jenkins.result.requests =
              SubSeq(possible_artifacts, 1,
                     IF C28_FirstFound = 0 THEN Len(possible_artifacts) ELSE C28_FirstFound)
        /\ jenkins.result.from_name =
              IF C28_Yields("TOPOLOGY=") /\ C28_Yields("PRODUCT_VERSION") THEN 0 ELSE 1
        /\ jenkins.result.raised = ""
        /\ {"topology", "release_version"} \subseteq DOMAIN jenkins.result.job

\* .envrc was not there, artifacts/jp.env was and has both lines: the job
\* has the topology of the artifact and its name was not looked at.
C28_Witness ==
    /\ jenkins.op = "add_job_info_from_artifacts"
    /\ Failed(jenkins.server[".envrc"], TRUE)
    /\ jenkins.result.requests = possible_artifacts
    /\ jenkins.result.from_name = 0
    /\ jenkins.result.job["topology"] = "compute:2,controller:3"
    /\ jenkins.result.job["release_version"] = "16"

(***************************************************************************)
(* The resolver's state machine                                            *)
(***************************************************************************)
SourceLists ==
    UNION {[1..n -> {Source(e, m) : e \in BOOLEAN, m \in MethodTables}] : n \in 0..MaxSources}

InitResolver ==
    /\ sources \in SourceLists
    /\ func_name \in {"get_builds"}
    /\ args \in SUBSET ArgNames
    /\ outcome = NotCalled
    /\ heap = EmptyHeap /\ jobs = EmptyDict /\ held = NoRef
    /\ call = NoCall /\ pre = NoPre
    /\ system = SystemObj /\ pipelines = EmptyDict /\ error = ""
    /\ NoValidator /\ NoPlugin /\ NoJenkins

\* get_source_method(system_name, sources, func_name, args), called twice;
\* outcome keeps what the last call did and how many calls there were.
Resolve ==
    /\ outcome.calls < 2
    /\ LET r == get_source_method(sources, func_name, args)
       IN /\ outcome' = [raised |-> r.raised, method |-> r.method,
                         calls |-> outcome.calls + 1, invoked |-> r.invoked]
          /\ sources' = r.sources
    /\ UNCHANGED <<func_name, args, modelVars, systemVars, validatorVars,
                   pluginVars, jenkinsVars>>

\* Between the two calls the configuration gives source i another priority
\* (Source.__init__'s kwargs).
SetPriority ==
    /\ outcome.calls = 1
    /\ \E i \in 1..Len(sources), p \in Priorities :
        /\ sources[i].priority # p
        /\ sources' = [sources EXCEPT ![i].priority = p]
        /\ UNCHANGED <<func_name, args, outcome, modelVars, systemVars, validatorVars,
                       pluginVars, jenkinsVars>>

NextResolver == Resolve \/ SetPriority

SpecResolver == InitResolver /\ [][NextResolver]_vars

====
